---- MODULE Spec2Model ----
(***************************************************************************)
(* A model of the devbox agent's process engine (handlers/process.rs,      *)
(* state/process.rs) and of its log subscription socket                     *)
(* (handlers/websocket.rs).                                                 *)
(*                                                                          *)
(* Spec / FairSpec : the life of process records: exec, the waiter task,   *)
(*                   the per-process timeout, kill, the child itself.       *)
(* SpecWs          : one client socket subscribing to the log ring and the *)
(*                   broadcaster of one target.                             *)
(* SpecSession     : one session, its shell and its requests.              *)
(* SpecShell       : a session's shell, pipes, pumps, exec and cd, over    *)
(*                   handlers/session.rs.                                   *)
(* SpecSync        : exec-sync and sync-stream.                             *)
(* SpecPath        : validate_path of utils/path.rs on paths of characters.*)
(* SpecCommand     : the command the three exec handlers build.            *)
(* SpecAuth        : the bearer-token layer of middleware/auth.rs.         *)
(* SpecChildren    : a process record and a session record, their waiters  *)
(*                   and the signals sent to their children.                *)
(* SpecLogs        : the server-sent log stream of one process.            *)
(* SpecWsList      : SpecWs with the socket's list action.                 *)
(* SpecPorts       : the port cache of monitor/port.rs and its callers.    *)
(***************************************************************************)
EXTENDS Integers, Sequences, FiniteSets, TLC

\* ------------------------------------------------------------------ bounds

\* How many process ids the id mint hands out in a run.
MaxProcs == 1

ProcIds == 1..MaxProcs

\* How many lines the target's children write in a run.
MaxLines == 3

\* How many subscriptions a socket is granted in a run.
MaxSubs == 1

\* The ring's capacity, MAX_LOG_LINES = 10000 in the program, scaled down.
RingCap == 2

\* The capacity of a record's broadcast channel, 100 in the program, scaled down.
BroadcastCap == 1

\* The capacity of a socket's send queue, 100 in the program, scaled down.
SendCap == 1

\* How many lines the child of a sync-stream request writes in a run.
MaxOut == 2

\* The longest user path given to validate_path, in characters.
MaxPath == 4

\* The longest command of an exec request, in characters.
MaxCommand == 3

\* The longest token a client sends, in characters.
MaxToken == 2

\* How many exec and cd requests a session gets in a run.
MaxCmds == 3

\* How many lines the commands of a session's shell write in a run.
MaxReply == 3

\* The capacity of an OS pipe, 64 KiB on Linux, scaled down to whole lines.
PipeCap == 1

\* How many env-update requests a session gets in a run.
MaxTouch == 2

\* How many get_ports calls run at the same time.
MaxCallers == 2

\* How far the clock runs, in ticks.
MaxTime == 3

\* ------------------------------------------------------- process lifecycle

VARIABLES
    processes,  \* state.processes: id -> ProcessInfo, or NoProc when the id is not a key
    child,      \* the OS side of each spawned child
    waiter,     \* the task spawned at process.rs:198, one per exec
    resp,       \* the last response a handler returned
    os_signal,  \* history: flips at each kill(2); whether its target was already reaped
    kill_ok     \* history: the strongest kill(id) that has returned success

NoProc == [absent |-> TRUE]
\* Option::None in exit_code, ExitStatus::code and ExitStatus::signal
NoCode == -1
NoExit == [kind |-> "none", n |-> 0]

\* nix::sys::signal::Signal numbers on Linux
SIGHUP == 1
SIGINT == 2
SIGKILL == 9
SIGTERM == 15

\* What a client may put in ?signal=; "" is the parameter left out.
SignalNames == {"", "SIGTERM", "SIGINT", "SIGHUP", "SIGKILL", "SIGUSR1"}

\* Exit codes a child chooses for itself.
ExitCodes == {0, 1}

Exited(c) == [kind |-> "code", n |-> c]
Signaled(s) == [kind |-> "signal", n |-> s]

\* ExitStatus::success, ExitStatus::code, ExitStatus::signal
success(st) == st.kind = "code" /\ st.n = 0
code(st) == IF st.kind = "code" THEN st.n ELSE NoCode
signal(st) == IF st.kind = "signal" THEN st.n ELSE NoCode

\* The envelope's status codes.
Success == 0
NotFound == 1404
Conflict == 1409
InternalError == 1500
OperationError == 1600

ProcessInfo_new == [status |-> "running", child |-> TRUE, pid |-> TRUE,
                    end_time |-> FALSE, exit_code |-> NoCode]

NoResp == [op |-> "none", code |-> Success, after |-> "none"]

InitProc ==
    /\ processes = [id \in ProcIds |-> NoProc]
    /\ child = [id \in ProcIds |-> [st |-> "none", exit |-> NoExit]]
    /\ waiter = [id \in ProcIds |-> [pc |-> "none", timeout |-> FALSE, expired |-> FALSE,
                                      res |-> NoExit]]
    /\ resp = NoResp
    /\ os_signal = [tick |-> 0, reaped |-> FALSE]
    /\ kill_ok = [id \in ProcIds |-> "none"]

proc_vars == <<processes, child, waiter, resp, os_signal, kill_ok>>

VARIABLES
    target_type,           \* the registry that holds the one record: "process" or "session"
    logs,                  \* the record's ring
    produced,              \* how many lines the children have written so far
    pump,                  \* per stream: the line appended to the ring and not yet published
    consumers,             \* the live-consumer tasks spawned for the socket, and their receivers
    spawned,               \* how many consumer tasks the socket has spawned
    active_subscriptions,  \* the socket's map, key -> SubscriptionInfo
    handler,               \* where the socket's receive loop stands
    sendq,                 \* the socket's mpsc queue, read by send_task
    emitted                \* history: every log event enqueued on sendq, in order

ws_vars == <<target_type, logs, produced, pump, consumers, spawned,
             active_subscriptions, handler, sendq, emitted>>

VARIABLES
    session,       \* the record of the one session id in state.sessions, or NoSession
    shell,         \* the OS side of the session's shell child
    cleaner,       \* where the task spawned at session.rs:174 is
    sresp,         \* the last response a session handler returned
    terminate_ok   \* history: a terminate of the session has returned success

sess_vars == <<session, shell, cleaner, sresp, terminate_ok>>

VARIABLES
    sync,          \* the one exec-sync request: where its handler is, and its response
    sync_child,    \* the OS side of the child exec-sync spawned
    stream,        \* the one sync-stream request: where its task is
    stream_child,  \* the OS side of the child sync-stream spawned
    pipe,          \* per output stream: lines the child has written and no reader has read
    sse            \* the events put on the response stream, in order

sync_vars == <<sync, sync_child, stream, stream_child, pipe, sse>>

VARIABLES
    arg,           \* the arguments of the one call of a function under study
    result         \* what the call returned, or NoResult before it

fn_vars == <<arg, result>>

VARIABLES
    sreq,          \* the exec or cd request that holds the session registry's write guard
    cmds,          \* history: the exec and cd requests made so far, in order
    stdin_pipe,    \* commands written to the shell's stdin and not read by it yet
    shell_cmd,     \* the command the shell is running: what it has yet to write, what it wrote
    out_pipe,      \* per stream: lines the shell has written and the pump has not read
    spump,         \* per stream: the line the session's pump has read and not appended
    cwd,           \* the session record's cwd
    appended       \* history: every line appended to the session's ring, in order

io_vars == <<sreq, cmds, stdin_pipe, shell_cmd, out_pipe, spump, cwd, appended>>

VARIABLES
    logs_stream    \* the one SSE request for a process's logs: its handler and its stream

aux_vars == <<logs_stream>>

VARIABLES
    ports,          \* PortMonitor.ports: the cached list
    last_updated,   \* PortMonitor.last_updated, in ticks of the clock
    refresh_mutex,  \* PortMonitor.refresh_mutex: the caller that holds it, or 0
    callers,        \* each get_ports call in progress: its position and locals
    now,            \* the monotonic clock, Instant::now()
    listening       \* the OS side: the ports /proc/net/tcp shows as listening

port_vars == <<ports, last_updated, refresh_mutex, callers, now, listening>>

rest_vars == <<fn_vars, io_vars, aux_vars, port_vars>>

NoArg == [fn |-> "none"]
NoResult == [fn |-> "none"]

\* No function is under study.
FnUnused ==
    /\ arg = NoArg
    /\ result = NoResult

\* config.workspace_path, and a session's cwd when the request names none
\* (session.rs:71-75).
WorkspacePath == <<"/", "a">>

NoRequest == [pc |-> "idle", op |-> "none", k |-> 0, raw |-> <<>>, path |-> <<>>]
NoOut == [prefix |-> "", n |-> 0, cmd |-> 0]

\* The session's shell and pumps as create_session leaves them.
IoIdle ==
    /\ sreq = NoRequest
    /\ cmds = <<>>
    /\ stdin_pipe = <<>>
    /\ shell_cmd = [k |-> 0, plan |-> <<>>, out |-> [s \in {"[stdout]", "[stderr]"} |-> 0]]
    /\ out_pipe = [s \in {"[stdout]", "[stderr]"} |-> <<>>]
    /\ spump = [s \in {"[stdout]", "[stderr]"} |-> NoOut]
    /\ cwd = WorkspacePath
    /\ appended = <<>>

\* tail left out of the query, process.rs:344
NoTail == -1

NoStream == [pc |-> "idle", tail |-> NoTail, from |-> 0, replay |-> <<>>, out |-> <<>>,
             lagged |-> FALSE]

AuxUnused == logs_stream = NoStream

\* cache_ttl, 100 ms at state/mod.rs:29, as one tick of the clock.
CacheTtl == 1

Callers == 1..MaxCallers

\* The ports a process of the machine can listen on.
PortNumbers == {8080}

NoCall == [pc |-> "idle", should_refresh |-> FALSE, polled |-> {},
           locked |-> FALSE, refreshed |-> FALSE, ret |-> {}]

\* PortMonitor::new, monitor/port.rs:17-25: an empty list, last_updated two
\* TTLs in the past, the mutex free; nobody calls get_ports.
PortUnused ==
    /\ ports = {}
    /\ last_updated = 0 - CacheTtl * 2
    /\ refresh_mutex = 0
    /\ callers = [c \in Callers |-> NoCall]
    /\ now = 0
    /\ listening = {}

RestUnused == FnUnused /\ IoIdle /\ AuxUnused /\ PortUnused

\* exec: process.rs:91-259.  The id is minted after a successful spawn, so a
\* failed spawn consumes none.  The record is inserted with the child in its
\* slot and the waiter task is spawned; it has not run yet.
exec_process_record_first(id, with_timeout, spawn_ok) ==
    /\ UNCHANGED <<ws_vars, sess_vars, sync_vars, rest_vars>>
    /\ child[id].st = "none"
    /\ \A j \in ProcIds : j < id => child[j].st # "none"
    /\ processes' = [processes EXCEPT ![id] = ProcessInfo_new]
    /\ waiter' = [waiter EXCEPT ![id] = [pc |-> "take", timeout |-> with_timeout,
                                         expired |-> FALSE, res |-> NoExit]]
    /\ child' = IF spawn_ok THEN [child EXCEPT ![id] = [st |-> "alive", exit |-> NoExit]]
                ELSE child
    /\ resp' = [op |-> "exec", code |-> IF spawn_ok THEN Success ELSE OperationError,
                after |-> "none"]
    /\ UNCHANGED <<os_signal, kill_ok>>

exec_process(id, with_timeout, spawn_ok) ==
    /\ UNCHANGED <<ws_vars, sess_vars, sync_vars, rest_vars>>
    /\ child[id].st = "none"
    /\ \A j \in ProcIds : j < id => child[j].st # "none"
    /\ IF ~spawn_ok
          THEN /\ resp' = [op |-> "exec", code |-> OperationError, after |-> "none"]
               /\ UNCHANGED <<processes, child, waiter, os_signal, kill_ok>>
          ELSE /\ processes' = [processes EXCEPT ![id] = ProcessInfo_new]
               /\ child' = [child EXCEPT ![id] = [st |-> "alive", exit |-> NoExit]]
               /\ waiter' = [waiter EXCEPT ![id] = [pc |-> "take", timeout |-> with_timeout,
                                                    expired |-> FALSE, res |-> NoExit]]
               /\ resp' = [op |-> "exec", code |-> Success, after |-> "none"]
               /\ UNCHANGED <<os_signal, kill_ok>>

\* The child ends by itself with an exit code of its choosing.
child_exit(id, c) ==
    /\ UNCHANGED <<ws_vars, sess_vars, sync_vars, rest_vars>>
    /\ child[id].st = "alive"
    /\ child' = [child EXCEPT ![id] = [st |-> "zombie", exit |-> Exited(c)]]
    /\ UNCHANGED <<processes, waiter, resp, os_signal, kill_ok>>

\* kill(2): what the OS can answer and do to the target.  SIGKILL ends a live
\* child; another signal ends it or is handled by it.  A zombie accepts any
\* signal without effect.  Once the child is reaped the pid names no process
\* (ESRCH) or, recycled, some unrelated one.
os_kill(id, sig) ==
    CASE child[id].st = "alive" ->
           {[ok |-> TRUE, child |-> [st |-> "zombie", exit |-> Signaled(sig)]]}
           \cup (IF sig = SIGKILL THEN {} ELSE {[ok |-> TRUE, child |-> child[id]]})
      [] child[id].st = "zombie" -> {[ok |-> TRUE, child |-> child[id]]}
      [] OTHER -> {[ok |-> TRUE, child |-> child[id]], [ok |-> FALSE, child |-> child[id]]}

sent(id) == [tick |-> 1 - os_signal.tick, reaped |-> child[id].st = "reaped"]

\* process.rs:307-312
signal_of(name) ==
    CASE name = "SIGTERM" -> SIGTERM
      [] name = "SIGINT" -> SIGINT
      [] name = "SIGHUP" -> SIGHUP
      [] OTHER -> SIGKILL

\* process.rs:299: only a record still marked running is signalled.
is_running_any(proc) == TRUE

is_running(proc) == proc.status = "running"

\* process.rs:319-321: a delivered SIGKILL marks the record killed at once; any
\* other signal leaves the status to the waiter.
marks_killed_never(sig) == FALSE

marks_killed(sig) == sig = SIGKILL

\* kill: process.rs:288-331, under the registry's write lock.
kill_process(id, name) ==
    LET proc == processes[id]
        sig == signal_of(name)
        answer(c) == [op |-> "kill", code |-> c, after |-> kill_ok[id]]
    IN  /\ UNCHANGED <<ws_vars, sess_vars, sync_vars, rest_vars>>
        /\ IF proc = NoProc
              THEN /\ resp' = answer(NotFound)
                   /\ UNCHANGED <<processes, child, waiter, os_signal, kill_ok>>
            ELSE IF ~is_running(proc)
              THEN /\ resp' = answer(Conflict)
                   /\ UNCHANGED <<processes, child, waiter, os_signal, kill_ok>>
            ELSE IF ~proc.pid
              THEN /\ resp' = answer(NotFound)
                   /\ UNCHANGED <<processes, child, waiter, os_signal, kill_ok>>
            ELSE \E o \in os_kill(id, sig) :
                   /\ os_signal' = sent(id)
                   /\ child' = [child EXCEPT ![id] = o.child]
                   /\ UNCHANGED waiter
                   /\ IF ~o.ok
                         THEN /\ resp' = answer(InternalError)
                              /\ UNCHANGED <<processes, kill_ok>>
                         ELSE /\ resp' = answer(Success)
                              /\ processes' = IF marks_killed(sig)
                                                THEN [processes EXCEPT ![id].status = "killed"]
                                                ELSE processes
                              /\ kill_ok' = [kill_ok EXCEPT ![id] =
                                     IF sig = SIGKILL \/ @ = "hard" THEN "hard" ELSE "soft"]

\* The waiter takes the child out of the record: process.rs:200-207.
waiter_take_keep(id) ==
    /\ UNCHANGED <<ws_vars, sess_vars, sync_vars, rest_vars>>
    /\ waiter[id].pc = "take"
    /\ processes[id] # NoProc
    /\ waiter' = [waiter EXCEPT ![id].pc = "wait"]
    /\ UNCHANGED <<processes, child, resp, os_signal, kill_ok>>

waiter_take(id) ==
    /\ UNCHANGED <<ws_vars, sess_vars, sync_vars, rest_vars>>
    /\ waiter[id].pc = "take"
    /\ processes[id] # NoProc
    /\ processes' = [processes EXCEPT ![id].child = FALSE]
    /\ waiter' = [waiter EXCEPT ![id].pc = "wait"]
    /\ UNCHANGED <<child, resp, os_signal, kill_ok>>

\* timeout(..) at process.rs:211 answers Err: the deadline has passed and the
\* poll of child.wait() just before found the child still running.
timeout_elapsed(id) ==
    /\ UNCHANGED <<ws_vars, sess_vars, sync_vars, rest_vars>>
    /\ waiter[id].pc = "wait"
    /\ waiter[id].timeout /\ ~waiter[id].expired
    /\ child[id].st = "alive"
    /\ waiter' = [waiter EXCEPT ![id].pc = "kill", ![id].expired = TRUE]
    /\ UNCHANGED <<processes, child, resp, os_signal, kill_ok>>

\* child.start_kill() at process.rs:214; its result is dropped.
waiter_start_kill(id) ==
    /\ UNCHANGED <<ws_vars, sess_vars, sync_vars, rest_vars>>
    /\ waiter[id].pc = "kill"
    /\ child' = [child EXCEPT ![id] =
                    IF @.st = "alive" THEN [st |-> "zombie", exit |-> Signaled(SIGKILL)] ELSE @]
    /\ waiter' = [waiter EXCEPT ![id].pc = "wait"]
    /\ UNCHANGED <<processes, resp, os_signal, kill_ok>>

\* child.wait() returns (process.rs:211, 215, 219): the child is reaped and
\* the waiter holds its exit status.  The waiter is the only owner of the
\* child, so wait() itself does not fail (the Err arm of wait_status is kept
\* as the code has it).
waiter_wait(id) ==
    /\ UNCHANGED <<ws_vars, sess_vars, sync_vars, rest_vars>>
    /\ waiter[id].pc = "wait"
    /\ child[id].st = "zombie"
    /\ child' = [child EXCEPT ![id].st = "reaped"]
    /\ waiter' = [waiter EXCEPT ![id].pc = "write",
                                ![id].res = child[id].exit]
    /\ UNCHANGED <<processes, resp, os_signal, kill_ok>>

\* process.rs:226-242: the status and exit code for a wait result.
wait_status_by_code(res) ==
    IF res = NoExit THEN "failed"
    ELSE IF success(res) THEN "completed"
    ELSE "failed"

wait_status(res) ==
    IF res = NoExit THEN "failed"
    ELSE IF success(res) THEN "completed"
    ELSE IF signal(res) # NoCode THEN "killed"
    ELSE "failed"

wait_exit_code(res, old) ==
    IF res = NoExit THEN old
    ELSE IF code(res) # NoCode THEN code(res)
    ELSE 128 + signal(res)

\* The waiter writes the outcome back: process.rs:223-244.
waiter_write_skip(id) ==
    /\ UNCHANGED <<ws_vars, sess_vars, sync_vars, rest_vars>>
    /\ waiter[id].pc = "write"
    /\ waiter' = [waiter EXCEPT ![id].pc = "sleep"]
    /\ UNCHANGED <<processes, child, resp, os_signal, kill_ok>>

waiter_write(id) ==
    /\ UNCHANGED <<ws_vars, sess_vars, sync_vars, rest_vars>>
    /\ waiter[id].pc = "write"
    /\ processes' = IF processes[id] = NoProc THEN processes
                     ELSE [processes EXCEPT
                             ![id].status = wait_status(waiter[id].res),
                             ![id].exit_code = wait_exit_code(waiter[id].res, @),
                             ![id].end_time = TRUE]
    /\ waiter' = [waiter EXCEPT ![id].pc = "sleep"]
    /\ UNCHANGED <<child, resp, os_signal, kill_ok>>

\* Four hours later the waiter removes the record: process.rs:247-250.
waiter_remove(id) ==
    /\ UNCHANGED <<ws_vars, sess_vars, sync_vars, rest_vars>>
    /\ waiter[id].pc = "sleep"
    /\ processes' = [processes EXCEPT ![id] = NoProc]
    /\ waiter' = [waiter EXCEPT ![id].pc = "done"]
    /\ UNCHANGED <<child, resp, os_signal, kill_ok>>

\* ------------------------------------------------------ log subscriptions

Streams == {"[stdout]", "[stderr]"}
NoLine == [prefix |-> "", n |-> 0]

\* What a client may name as the type of a target; the target id is the
\* record's, so the key "<type>:<id>" is determined by the type.
Types == {"process", "session", "pty"}

\* The levels filters a client asks for ({} is no filter).
LevelSets == {{}, {"stderr"}}

NoSub == [absent |-> TRUE]
NoConsumer == [st |-> "none", key |-> "", levels |-> {}, sequence |-> 0,
               inbox |-> <<>>, lagged |-> FALSE, log |-> NoLine]
Idle == [pc |-> "idle", key |-> "", levels |-> {}, tail |-> 0, i |-> 0, phase |-> 0,
         reply |-> 0, sub |-> 0, message |-> ""]

\* websocket.rs:112-126
parse_log_entry(raw_log) ==
    CASE raw_log.prefix = "[stdout]" -> "stdout"
      [] raw_log.prefix = "[stderr]" -> "stderr"
      [] raw_log.prefix = "[system]" -> "system"
      [] raw_log.prefix = "[exec]" -> "system"
      [] raw_log.prefix = "[cd]" -> "system"
      [] OTHER -> "unknown"

\* websocket.rs:189 and 286: the levels filter.
passes_always(levels, raw_log) == TRUE

passes(levels, raw_log) == levels = {} \/ parse_log_entry(raw_log) \in levels

\* LogMessage, websocket.rs:193-209 and 295-311; sub names the subscription
\* the event was made for.
LogMessage(sub, key, raw_log, sequence, is_history) ==
    [kind |-> "log", sub |-> sub, key |-> key, log |-> raw_log,
     level |-> parse_log_entry(raw_log),
     sequence |-> sequence, is_history |-> is_history, status |-> 0]

\* SubscriptionResult and ErrorMessage, websocket.rs:161-169, 337-360, 369-391
Reply(kind, status) ==
    [kind |-> kind, sub |-> 0, key |-> "", log |-> NoLine,
     sequence |-> 0, is_history |-> FALSE, status |-> status]

\* ErrorMessage, websocket.rs:163-166, 354-357, 385-388
ErrorMessage(status, message) ==
    [kind |-> "error", sub |-> 0, key |-> "", log |-> NoLine, sequence |-> 0,
     is_history |-> FALSE, status |-> status, message |-> message]

\* The handler about to send an error, back to the receive loop afterwards.
Failing(status, message) ==
    [Idle EXCEPT !.pc = "reply", !.reply = status, !.message = message]

InitWs ==
    /\ target_type \in {"process", "session"}
    /\ logs = <<>>
    /\ produced = 0
    /\ pump = [s \in Streams |-> NoLine]
    /\ consumers = [i \in 1..MaxSubs |-> NoConsumer]
    /\ spawned = 0
    /\ active_subscriptions = [t \in Types |-> NoSub]
    /\ handler = Idle
    /\ sendq = <<>>
    /\ emitted = <<>>

\* The handler holds the ring's read guard from websocket.rs:185 to 212.
ring_read_locked == handler.pc = "replay"

\* The ring's append, process.rs:785-789 (session.rs:133-137, 299-303,
\* 349-353): a full ring gives up its head for the new line.
ring_push_front(ring, line) ==
    <<line>> \o (IF Len(ring) >= RingCap THEN SubSeq(ring, 1, Len(ring) - 1) ELSE ring)

ring_push_tail(ring, line) ==
    IF Len(ring) >= RingCap THEN SubSeq(ring, 1, Len(ring) - 1) \o <<line>>
    ELSE Append(ring, line)

ring_push(ring, line) ==
    IF Len(ring) >= RingCap THEN Tail(ring) \o <<line>> ELSE Append(ring, line)

\* pump_log, process.rs:779-790 (session.rs:127-138): a line is read and
\* appended to the ring under the ring's write guard, or to nothing when the
\* record is no longer in the registry (process.rs:784).
pump_append(s) ==
    /\ pump[s] = NoLine
    /\ produced < MaxLines
    /\ ~ring_read_locked
    /\ LET line == [prefix |-> s, n |-> produced + 1]
       IN  /\ logs' = IF target_type = "gone" THEN logs ELSE ring_push(logs, line)
           /\ pump' = [pump EXCEPT ![s] = line]
    /\ produced' = produced + 1
    /\ UNCHANGED <<rest_vars, sync_vars, sess_vars, proc_vars, target_type, consumers, spawned, active_subscriptions, handler,
                   sendq, emitted>>

\* broadcast::Sender::send: every receiver gets the line; a receiver that is
\* BroadcastCap behind loses its oldest line and is marked lagged.
broadcast(cs, line) ==
    [i \in 1..MaxSubs |->
        IF cs[i].st \in {"none", "stopped", "closed"} THEN cs[i]
        ELSE IF Len(cs[i].inbox) >= BroadcastCap
          THEN [cs[i] EXCEPT !.inbox = Tail(@) \o <<line>>, !.lagged = TRUE]
          ELSE [cs[i] EXCEPT !.inbox = Append(@, line)]]

\* pump_log, process.rs:791: the line is published after the guards are gone.
pump_send(s) ==
    /\ pump[s] # NoLine
    /\ consumers' = broadcast(consumers, pump[s])
    /\ pump' = [pump EXCEPT ![s] = NoLine]
    /\ UNCHANGED <<rest_vars, sync_vars, sess_vars, proc_vars, target_type, logs, produced, spawned, active_subscriptions, handler,
                   sendq, emitted>>

\* The socket's queue has lost its receiver: the handler has returned and
\* aborted send_task, websocket.rs:145, 418-421.
queue_closed == handler.pc = "closed"

\* tx.send(msg).await on the socket's queue: possible when the queue has room.
has_room == Len(sendq) < SendCap

\* The order of the subscribe handler's phases after a successful lookup,
\* websocket.rs:184-349: replay the history, attach the consumer, confirm.
SubscribeOrderAttachFirst == <<"attach", "replay", "confirm">>

SubscribeOrder == <<"replay", "attach", "confirm">>

\* The handler after phase k: the next phase, a replay of nothing skipped
\* (websocket.rs:184, tail > 0), or the receive loop again.
RECURSIVE after_phase(_, _)
after_phase(h, k) ==
    IF k >= Len(SubscribeOrder) THEN Idle
    ELSE IF SubscribeOrder[k + 1] = "replay" /\ h.tail = 0 THEN after_phase(h, k + 1)
    ELSE [h EXCEPT !.pc = SubscribeOrder[k + 1], !.phase = k + 1, !.i = 0]

\* websocket.rs:160: the key is in the socket's map.
already_subscribed_never(type) == FALSE

already_subscribed(type) == active_subscriptions[type] # NoSub

\* websocket.rs:182, 220, 256: the id is in the registry the type names.
target_found_always(type) == TRUE

target_found(type) == type = target_type

\* subscribe, websocket.rs:154-182, 214-216, 252-257, 350-361
ws_subscribe(type, levels, tail) ==
    /\ handler.pc = "idle"
    /\ handler' =
         IF already_subscribed(type)
           THEN Failing(1400, "Subscription already exists")
         ELSE IF ~target_found(type)
           THEN Failing(1404, "Target not found")
         ELSE after_phase([Idle EXCEPT !.key = type, !.levels = levels, !.tail = tail,
                                       !.sub = spawned + 1], 0)
    /\ (active_subscriptions[type] = NoSub /\ target_found(type)) => spawned < MaxSubs
    /\ UNCHANGED <<rest_vars, sync_vars, sess_vars, proc_vars, target_type, logs, produced, pump, consumers, spawned,
                   active_subscriptions, sendq, emitted>>

\* websocket.rs:186: where the replay starts in the ring.
start_idx(tail) == IF Len(logs) > tail THEN Len(logs) - tail ELSE 0

\* websocket.rs:201 and 207: the sequence number of the i-th replayed entry.
history_sequence(i) == i

\* One turn of the replay loop, websocket.rs:187-211 (222-249 for a session):
\* the entry is skipped or sent with the loop index as its sequence.
ws_replay ==
    /\ handler.pc = "replay"
    /\ handler.i < Len(logs) - start_idx(handler.tail)
    /\ LET log == logs[start_idx(handler.tail) + handler.i + 1]
           msg == LogMessage(handler.sub, handler.key, log, history_sequence(handler.i), TRUE)
       IN  IF passes(handler.levels, log)
             THEN /\ has_room
                  /\ sendq' = Append(sendq, msg)
                  /\ emitted' = Append(emitted, msg)
             ELSE UNCHANGED <<sendq, emitted>>
    /\ handler' = [handler EXCEPT !.i = @ + 1]
    /\ UNCHANGED <<rest_vars, sync_vars, sess_vars, proc_vars, target_type, logs, produced, pump, consumers, spawned,
                   active_subscriptions>>

\* The loop ends and the ring's read guard is dropped, websocket.rs:212.
ws_replay_done ==
    /\ handler.pc = "replay"
    /\ handler.i >= Len(logs) - start_idx(handler.tail)
    /\ handler' = after_phase(handler, handler.phase)
    /\ UNCHANGED <<rest_vars, sync_vars, sess_vars, proc_vars, target_type, logs, produced, pump, consumers, spawned,
                   active_subscriptions, sendq, emitted>>

\* websocket.rs:213, 259-329: a receiver is created on the broadcaster, the
\* consumer task is spawned with its own counter and the key is recorded.
ws_attach ==
    /\ handler.pc = "attach"
    /\ spawned' = handler.sub
    /\ consumers' = [consumers EXCEPT ![handler.sub] =
                        [NoConsumer EXCEPT !.st = "recv", !.key = handler.key,
                                           !.levels = handler.levels]]
    /\ active_subscriptions' =
         [active_subscriptions EXCEPT ![handler.key] = [levels |-> handler.levels]]
    /\ handler' = after_phase(handler, handler.phase)
    /\ UNCHANGED <<rest_vars, sync_vars, sess_vars, proc_vars, target_type, logs, produced, pump, sendq, emitted>>

\* websocket.rs:331-349
ws_confirm ==
    /\ handler.pc = "confirm"
    /\ has_room
    /\ sendq' = Append(sendq, Reply("subscribed", 0))
    /\ handler' = after_phase(handler, handler.phase)
    /\ UNCHANGED <<rest_vars, sync_vars, sess_vars, proc_vars, target_type, logs, produced, pump, consumers, spawned,
                   active_subscriptions, emitted>>

\* unsubscribe, websocket.rs:363-393: the key leaves the map; the consumer
\* task is not told.
ws_unsubscribe(type) ==
    /\ handler.pc = "idle"
    /\ IF active_subscriptions[type] # NoSub
         THEN /\ active_subscriptions' = [active_subscriptions EXCEPT ![type] = NoSub]
              /\ handler' = [Idle EXCEPT !.pc = "reply", !.reply = 0]
         ELSE /\ handler' = Failing(1404, "Subscription not found")
              /\ UNCHANGED active_subscriptions
    /\ UNCHANGED <<rest_vars, sync_vars, sess_vars, proc_vars, target_type, logs, produced, pump, consumers, spawned, sendq, emitted>>

\* The reply of subscribe's error paths and of unsubscribe is sent.
ws_reply ==
    /\ handler.pc = "reply"
    /\ has_room
    /\ sendq' = Append(sendq, IF handler.reply = 0 THEN Reply("unsubscribed", 0)
                               ELSE ErrorMessage(handler.reply, handler.message))
    /\ handler' = Idle
    /\ UNCHANGED <<rest_vars, sync_vars, sess_vars, proc_vars, target_type, logs, produced, pump, consumers, spawned,
                   active_subscriptions, emitted>>

\* The consumer's rx.recv().await returns, websocket.rs:283-288: a lagged
\* receiver ends the loop; a line that fails the filter is dropped.
consumer_recv(i) ==
    /\ consumers[i].st = "recv"
    /\ consumers[i].lagged \/ consumers[i].inbox # <<>>
    /\ LET c == consumers[i]
       IN  consumers' = [consumers EXCEPT ![i] =
             IF c.lagged THEN [c EXCEPT !.st = "stopped", !.inbox = <<>>]
             ELSE IF passes(c.levels, Head(c.inbox))
               THEN [c EXCEPT !.st = "send", !.log = Head(c.inbox), !.inbox = Tail(c.inbox)]
               ELSE [c EXCEPT !.inbox = Tail(c.inbox)]]
    /\ UNCHANGED <<rest_vars, sync_vars, sess_vars, proc_vars, target_type, logs, produced, pump, spawned, active_subscriptions,
                   handler, sendq, emitted>>

\* websocket.rs:295-317: the live event is sent and the counter advances;
\* on a closed queue the send fails and the task ends (314-316).
consumer_send(i) ==
    /\ consumers[i].st = "send"
    /\ IF queue_closed
         THEN /\ consumers' = [consumers EXCEPT ![i].st = "closed", ![i].log = NoLine,
                                                ![i].inbox = <<>>]
              /\ UNCHANGED <<sendq, emitted>>
         ELSE /\ has_room
              /\ LET msg == LogMessage(i, consumers[i].key, consumers[i].log,
                                       consumers[i].sequence, FALSE)
                 IN  /\ sendq' = Append(sendq, msg)
                     /\ emitted' = Append(emitted, msg)
              /\ consumers' = [consumers EXCEPT ![i].st = "recv", ![i].log = NoLine,
                                                ![i].sequence = @ + 1]
    /\ UNCHANGED <<rest_vars, sync_vars, sess_vars, proc_vars, target_type, logs, produced, pump, spawned, active_subscriptions,
                   handler>>

\* send_task, websocket.rs:137-143: the next message goes out to the client.
send_task ==
    /\ sendq # <<>>
    /\ sendq' = Tail(sendq)
    /\ UNCHANGED <<rest_vars, sync_vars, sess_vars, proc_vars, target_type, logs, produced, pump, consumers, spawned,
                   active_subscriptions, handler, emitted>>

\* ---------------------------------------------------------------- sessions

NoSession == [absent |-> TRUE]

\* SessionInfo::new, state/session.rs:47-63
SessionInfo_new == [status |-> "active", child |-> TRUE, pid |-> TRUE, stdin |-> TRUE,
                    env |-> {}, last_used_at |-> 0]

NoSessionResp == [op |-> "none", code |-> Success]

\* No session has been created.
SessionUnused ==
    /\ session = NoSession
    /\ shell = "none"
    /\ cleaner = "none"
    /\ sresp = NoSessionResp
    /\ terminate_ok = FALSE

\* create_session has returned, session.rs:66-210: the record is in the
\* registry, the shell runs, the cleanup task is spawned and has not run yet.
SessionCreated ==
    /\ session = SessionInfo_new
    /\ shell = "running"
    /\ cleaner = "start"
    /\ sresp = [op |-> "create", code |-> Success]
    /\ terminate_ok = FALSE

\* The handler holds the registry's read guard from websocket.rs:219 to 255.
registry_read_locked == handler.pc = "replay"

\* stdin.write_all on the shell's pipe, session.rs:264, 292, 340: it fails
\* with EPIPE once the shell has exited.
stdin_write_ok == shell = "running"

\* session.rs:296-305 and 346-355: the synthetic entry is appended to the
\* ring and published, all under the registry's write guard.
session_append(prefix) ==
    LET line == [prefix |-> prefix, n |-> produced + 1]
    IN  /\ produced < MaxLines
        /\ logs' = ring_push(logs, line)
        /\ consumers' = broadcast(consumers, line)
        /\ produced' = produced + 1

\* session_exec and session_cd, session.rs:280-314 and 321-361; validate_path
\* never fails (utils/path.rs:20-49).  prefix is "[exec]" or "[cd]".
session_write(op, prefix) ==
    /\ ~registry_read_locked
    /\ IF session = NoSession
         THEN /\ sresp' = [op |-> op, code |-> NotFound]
              /\ UNCHANGED <<logs, consumers, produced>>
         ELSE IF ~stdin_write_ok
           THEN /\ sresp' = [op |-> op, code |-> InternalError]
                /\ UNCHANGED <<logs, consumers, produced>>
           ELSE /\ session_append(prefix)
                /\ sresp' = [op |-> op, code |-> Success]
    /\ UNCHANGED <<rest_vars, sync_vars, proc_vars, session, shell, cleaner, terminate_ok, target_type, pump,
                   spawned, active_subscriptions, handler, sendq, emitted>>

session_exec == session_write("exec", "[exec]")

session_cd == session_write("cd", "[cd]")

\* The variables of an env-update request, by name.
req_env(env_empty) == IF env_empty THEN {} ELSE {"VAR"}

\* session.rs:254-258: the request's variables are put into the record and
\* last_used_at is set to the time of the call, counted in calls.
env_insert(sess, env) ==
    [sess EXCEPT !.env = @ \cup env, !.last_used_at = @ + 1]

\* update_session_env, session.rs:244-273: the record is updated, then one
\* write per variable, none for an empty map; nothing is logged.
update_session_env(env_empty) ==
    /\ ~registry_read_locked
    /\ IF session = NoSession
         THEN /\ sresp' = [op |-> "env", code |-> NotFound]
              /\ UNCHANGED session
         ELSE /\ session.last_used_at < MaxTouch
              /\ LET written == env_empty \/ stdin_write_ok
                 IN  /\ session' = env_insert(session, req_env(env_empty))
                     /\ sresp' = [op |-> "env",
                                  code |-> IF written THEN Success ELSE InternalError]
    /\ UNCHANGED <<rest_vars, sync_vars, proc_vars, ws_vars, shell, cleaner, terminate_ok>>

\* get_session and get_session_logs, session.rs:227-237 and 390-417
session_read(op) ==
    /\ sresp' = [op |-> op, code |-> IF session = NoSession THEN NotFound ELSE Success]
    /\ UNCHANGED <<rest_vars, sync_vars, proc_vars, ws_vars, session, shell, cleaner, terminate_ok>>

get_session == session_read("get")

get_session_logs == session_read("logs")

\* SIGKILL on the shell's pid: a running shell dies of it, a zombie is left
\* as it is.
kill_effect_none(sh) == sh

kill_effect(sh) == IF sh = "running" THEN "zombie" ELSE sh

\* kill(2) on the pid, session.rs:373-377: once the shell is reaped the pid
\* names no process (ESRCH) or, recycled, some unrelated one.
kill_results == IF shell = "reaped" THEN {TRUE, FALSE} ELSE {TRUE}

\* session.rs:378: what a successful terminate writes.
status_on_terminate_active == "active"

status_on_terminate == "terminated"

\* terminate_session, session.rs:363-388
terminate_session ==
    /\ ~registry_read_locked
    /\ IF session = NoSession
         THEN /\ sresp' = [op |-> "terminate", code |-> NotFound]
              /\ UNCHANGED <<session, shell, terminate_ok>>
         ELSE IF ~session.pid
           THEN /\ sresp' = [op |-> "terminate", code |-> NotFound]
                /\ UNCHANGED <<session, shell, terminate_ok>>
         ELSE \E ok \in kill_results :
                /\ shell' = kill_effect(shell)
                /\ IF ok
                     THEN /\ session' = [session EXCEPT !.status = status_on_terminate]
                          /\ sresp' = [op |-> "terminate", code |-> Success]
                          /\ terminate_ok' = TRUE
                     ELSE /\ sresp' = [op |-> "terminate", code |-> InternalError]
                          /\ UNCHANGED <<session, terminate_ok>>
    /\ UNCHANGED <<rest_vars, sync_vars, proc_vars, ws_vars, cleaner>>

\* The shell ends by itself (an exit command, end of input).
shell_exit ==
    /\ shell = "running"
    /\ shell' = "zombie"
    /\ UNCHANGED <<rest_vars, sync_vars, proc_vars, ws_vars, session, cleaner, sresp, terminate_ok>>

\* The cleanup task takes the child out of the record, session.rs:176-183.
cleaner_take ==
    /\ cleaner = "start"
    /\ ~registry_read_locked
    /\ IF session # NoSession /\ session.child
         THEN /\ session' = [session EXCEPT !.child = FALSE]
              /\ cleaner' = "wait"
         ELSE /\ cleaner' = "done"
              /\ UNCHANGED session
    /\ UNCHANGED <<rest_vars, sync_vars, proc_vars, ws_vars, shell, sresp, terminate_ok>>

\* child.wait() returns, session.rs:186
cleaner_wait ==
    /\ cleaner = "wait"
    /\ shell = "zombie"
    /\ shell' = "reaped"
    /\ cleaner' = "write"
    /\ UNCHANGED <<rest_vars, sync_vars, proc_vars, ws_vars, session, sresp, terminate_ok>>

\* session.rs:189-194
cleaner_write ==
    /\ cleaner = "write"
    /\ ~registry_read_locked
    /\ session' = IF session = NoSession THEN session
                  ELSE [session EXCEPT !.status = "terminated"]
    /\ cleaner' = "sleep"
    /\ UNCHANGED <<rest_vars, sync_vars, proc_vars, ws_vars, shell, sresp, terminate_ok>>

\* Thirty minutes later the record is removed, session.rs:197-200; its ring
\* goes with it.
cleaner_remove ==
    /\ cleaner = "sleep"
    /\ ~registry_read_locked
    /\ session' = NoSession
    /\ target_type' = "gone"
    /\ logs' = <<>>
    /\ cleaner' = "done"
    /\ UNCHANGED <<rest_vars, sync_vars, proc_vars, shell, sresp, terminate_ok, produced, pump, consumers, spawned,
                   active_subscriptions, handler, sendq, emitted>>

CleanerStep == cleaner_take \/ cleaner_wait \/ cleaner_write \/ cleaner_remove

NextSession ==
    \/ session_exec
    \/ session_cd
    \/ \E e \in BOOLEAN : update_session_env(e)
    \/ get_session
    \/ get_session_logs
    \/ terminate_session
    \/ shell_exit
    \/ cleaner_take
    \/ cleaner_wait
    \/ cleaner_write
    \/ cleaner_remove

\* ------------------------------------------------- exec-sync and sync-stream

OutStreams == {"stdout", "stderr"}

NoSync == [pc |-> "idle", code |-> Success, timed_out |-> FALSE]

SyncUnused ==
    /\ sync = NoSync
    /\ sync_child = "none"
    /\ stream = "idle"
    /\ stream_child = "none"
    /\ pipe = [s \in OutStreams |-> 0]
    /\ sse = <<>>

\* exec_process_sync up to its await, process.rs:427-477 and 505-534: a
\* failed spawn is answered at once with exit code 127.
exec_process_sync(spawn_ok) ==
    /\ sync.pc = "idle"
    /\ IF spawn_ok
         THEN /\ sync' = [sync EXCEPT !.pc = "waiting"]
              /\ sync_child' = "running"
         ELSE /\ sync' = [sync EXCEPT !.pc = "done", !.code = OperationError]
              /\ UNCHANGED sync_child
    /\ UNCHANGED <<rest_vars, proc_vars, ws_vars, sess_vars, stream, stream_child, pipe, sse>>

sync_child_exit ==
    /\ sync_child = "running"
    /\ sync_child' = "zombie"
    /\ UNCHANGED <<rest_vars, proc_vars, ws_vars, sess_vars, sync, stream, stream_child, pipe, sse>>

\* child.wait_with_output() returns inside the time limit, process.rs:488-495
sync_wait_with_output ==
    /\ sync.pc = "waiting"
    /\ sync_child = "zombie"
    /\ sync_child' = "reaped"
    /\ sync' = [sync EXCEPT !.pc = "done", !.code = Success]
    /\ UNCHANGED <<rest_vars, proc_vars, ws_vars, sess_vars, stream, stream_child, pipe, sse>>

\* What dropping a tokio Child does to its process: the command is built
\* without kill_on_drop (process.rs:439-469), so nothing.
drop_child(ch) == ch

\* The time limit expires first, process.rs:477 and 500-502: the future that
\* owns the child is dropped and the request is answered.
sync_timeout_elapsed ==
    /\ sync.pc = "waiting"
    /\ sync_child = "running"
    /\ sync_child' = drop_child(sync_child)
    /\ sync' = [sync EXCEPT !.pc = "done", !.code = InternalError, !.timed_out = TRUE]
    /\ UNCHANGED <<rest_vars, proc_vars, ws_vars, sess_vars, stream, stream_child, pipe, sse>>

\* The task of a sync-stream request up to its wait, process.rs:566-680 and
\* 738-754: the start event, the spawn, the two line readers.
exec_process_sync_stream(spawn_ok) ==
    /\ stream = "idle"
    /\ IF spawn_ok
         THEN /\ sse' = Append(sse, "start")
              /\ stream' = "waiting"
              /\ stream_child' = "running"
         ELSE /\ sse' = sse \o <<"start", "error">>
              /\ stream' = "done"
              /\ UNCHANGED stream_child
    /\ UNCHANGED <<rest_vars, proc_vars, ws_vars, sess_vars, sync, sync_child, pipe>>

\* The child writes a line to one of its pipes.
stream_child_write(s) ==
    /\ stream_child = "running"
    /\ pipe["stdout"] + pipe["stderr"] + Len(SelectSeq(sse, LAMBDA e : e \in OutStreams)) < MaxOut
    /\ pipe' = [pipe EXCEPT ![s] = @ + 1]
    /\ UNCHANGED <<rest_vars, proc_vars, ws_vars, sess_vars, sync, sync_child, stream, stream_child, sse>>

stream_child_exit ==
    /\ stream_child = "running"
    /\ stream_child' = "zombie"
    /\ UNCHANGED <<rest_vars, proc_vars, ws_vars, sess_vars, sync, sync_child, stream, pipe, sse>>

\* A reader task reads a line and sends its event, process.rs:629-648 and
\* 657-676.
stream_reader(s) ==
    /\ pipe[s] > 0
    /\ pipe' = [pipe EXCEPT ![s] = @ - 1]
    /\ sse' = Append(sse, s)
    /\ UNCHANGED <<rest_vars, proc_vars, ws_vars, sess_vars, sync, sync_child, stream, stream_child>>

\* child.wait() returns inside the time limit, process.rs:680-700
stream_wait ==
    /\ stream = "waiting"
    /\ stream_child = "zombie"
    /\ stream_child' = "reaped"
    /\ sse' = Append(sse, "complete")
    /\ stream' = "done"
    /\ UNCHANGED <<rest_vars, proc_vars, ws_vars, sess_vars, sync, sync_child, pipe>>

\* The time limit expires first, process.rs:718-735: the child is killed and
\* the error event is sent.
stream_timeout_elapsed ==
    /\ stream = "waiting"
    /\ stream_child = "running"
    /\ stream_child' = "zombie"
    /\ sse' = Append(sse, "error")
    /\ stream' = "done"
    /\ UNCHANGED <<rest_vars, proc_vars, ws_vars, sess_vars, sync, sync_child, pipe>>

NextSync ==
    \/ \E ok \in BOOLEAN : exec_process_sync(ok)
    \/ sync_child_exit
    \/ sync_wait_with_output
    \/ sync_timeout_elapsed
    \/ \E ok \in BOOLEAN : exec_process_sync_stream(ok)
    \/ \E s \in OutStreams : stream_child_write(s)
    \/ stream_child_exit
    \/ \E s \in OutStreams : stream_reader(s)
    \/ stream_wait
    \/ stream_timeout_elapsed

\* ------------------------------------------------------------ utils/path.rs

\* A path is a string, here a sequence of characters.
PathChars == {"/", ".", "a", "b"}

UserPaths == UNION {[1..n -> PathChars] : n \in 0..MaxPath}

\* The workspace roots and working directories validate_path is given.
BasePaths == {<<"/">>, <<"/", "a">>, <<"/", "a", "/", "b">>, <<"a">>}

\* The pieces of a string between its separators, empty ones included.
RECURSIVE pieces(_, _)
pieces(str, sep) ==
    IF str = <<>> THEN << <<>> >>
    ELSE LET r == pieces(Tail(str), sep)
         IN  IF Head(str) = sep THEN << <<>> >> \o r
             ELSE << <<Head(str)>> \o Head(r) >> \o Tail(r)

split(path) == pieces(path, "/")

\* Path::is_absolute on Unix
is_absolute(path) == path # <<>> /\ path[1] = "/"

RootDir == [kind |-> "RootDir", s |-> <<"/">>]
CurDir == [kind |-> "CurDir", s |-> <<".">>]
ParentDir == [kind |-> "ParentDir", s |-> <<".", ".">>]
Normal(s) == [kind |-> "Normal", s |-> s]

RECURSIVE components_from(_, _)
components_from(segs, i) ==
    IF i > Len(segs) THEN <<>>
    ELSE LET sg == segs[i]
             rest == components_from(segs, i + 1)
         IN  IF sg = <<>> THEN rest
             ELSE IF sg = <<".">> THEN (IF i = 1 THEN <<CurDir>> \o rest ELSE rest)
             ELSE IF sg = <<".", ".">> THEN <<ParentDir>> \o rest
             ELSE <<Normal(sg)>> \o rest

\* Path::components: repeated and trailing separators vanish, and so does
\* every "." that is not the first component of a relative path.
components(path) ==
    (IF is_absolute(path) THEN <<RootDir>> ELSE <<>>) \o components_from(split(path), 1)

\* PathBuf::push: an absolute path replaces the buffer; otherwise it is
\* appended, after a separator when the buffer does not end with one.
push(ret, path) ==
    IF is_absolute(path) THEN path
    ELSE IF ret = <<>> \/ ret[Len(ret)] = "/" THEN ret \o path
    ELSE ret \o <<"/">> \o path

\* PathBuf::pop on a buffer built by push: the last component goes; the root
\* and the empty buffer have no parent and stay.
pop_noop(ret) == ret

pop(ret) ==
    LET slashes == {i \in 1..Len(ret) : ret[i] = "/"}
        last == IF slashes = {} THEN 0 ELSE CHOOSE i \in slashes : \A j \in slashes : j <= i
    IN  IF ret = <<>> \/ ret = <<"/">> THEN ret
        ELSE IF last = 0 THEN <<>>
        ELSE IF last = 1 THEN <<"/">>
        ELSE SubSeq(ret, 1, last - 1)

\* utils/path.rs:4-18, the loop from component i on.
RECURSIVE normalize_from(_, _, _)
normalize_from(cs, i, ret) ==
    IF i > Len(cs) THEN ret
    ELSE normalize_from(cs, i + 1,
             CASE cs[i].kind = "RootDir" -> push(ret, cs[i].s)
               [] cs[i].kind = "CurDir" -> ret
               [] cs[i].kind = "ParentDir" -> pop(ret)
               [] OTHER -> push(ret, cs[i].s))

normalize_path(path) == normalize_from(components(path), 1, <<>>)

\* utils/path.rs:28-32 and 44-48
or_dot_never(normalized) == normalized

or_dot(normalized) == IF normalized = <<>> THEN <<".">> ELSE normalized

\* utils/path.rs:20-49; Path::join is a push on a copy of the base.
validate_path(base_path, user_path) ==
    IF is_absolute(user_path)
      THEN [ok |-> TRUE, path |-> or_dot(normalize_path(user_path))]
      ELSE [ok |-> TRUE, path |-> or_dot(normalize_path(push(base_path, user_path)))]

validate_path_call ==
    /\ arg.fn = "validate_path"
    /\ result = NoResult
    /\ result' = validate_path(arg.base, arg.user)
    /\ UNCHANGED <<proc_vars, ws_vars, sess_vars, sync_vars, io_vars, aux_vars, port_vars, arg>>

NextPath == validate_path_call

\* ------------------------------------------------------ spawn construction

\* What a client may put in command and in an argument.
CommandChars == {"e", " "}
ArgChars == {"e", " ", "'"}

Commands == UNION {[1..n -> CommandChars] : n \in 0..MaxCommand}

\* args: left out, empty, or one argument of at most one character.
ArgLists == {<<>>} \cup {<<a>> : a \in UNION {[1..n -> ArgChars] : n \in 0..1}}

Shells == {<<"s", "h">>}

\* ExecProcessRequest / SyncExecutionRequest: command, args and shell.
Requests ==
    {r \in [fn : {"command"}, command : Commands,
            has_args : BOOLEAN, args : ArgLists,
            has_shell : BOOLEAN, shell : Shells] :
        ~r.has_args => r.args = <<>>}

\* str::split_whitespace
split_whitespace(str) == SelectSeq(pieces(str, " "), LAMBDA w : w # <<>>)

\* utils/common.rs:50-80
RECURSIVE quote_from(_)
quote_from(str) ==
    IF str = <<>> THEN <<>>
    ELSE (IF Head(str) = "'" THEN <<"'", "\\", "'", "'">> ELSE <<Head(str)>>)
         \o quote_from(Tail(str))

shell_escape(str) ==
    IF str = <<>> THEN <<"'", "'">>
    ELSE IF \A i \in 1..Len(str) : str[i] \notin {" ", "'"} THEN str
    ELSE <<"'">> \o quote_from(str) \o <<"'">>

\* process.rs:98-104, 442-448, 585-591: the command with its escaped
\* arguments, for sh -c.
RECURSIVE cmd_str(_, _)
cmd_str(command, args) ==
    IF args = <<>> THEN command
    ELSE cmd_str(command \o <<" ">> \o shell_escape(Head(args)), Tail(args))

Command(program, args) == [built |-> TRUE, program |-> program, args |-> args]

NoCommand == [built |-> FALSE, program |-> <<>>, args |-> <<>>]

\* process.rs:95-106, 439-450, 582-593
shell_command(req) == Command(req.shell, << <<"-", "c">>, cmd_str(req.command, req.args) >>)

\* exec_process, process.rs:95-122
exec_command(req) ==
    IF req.has_shell THEN shell_command(req)
    ELSE IF req.has_args THEN Command(req.command, req.args)
    ELSE LET parts == split_whitespace(req.command)
         IN  IF Len(parts) > 1 THEN Command(parts[1], Tail(parts))
             ELSE Command(req.command, <<>>)

\* exec_process_sync, process.rs:439-457
sync_command(req) ==
    IF req.has_shell THEN shell_command(req)
    ELSE Command(req.command, req.args)

\* exec_process_sync_stream, process.rs:582-600
stream_command(req) ==
    IF req.has_shell THEN shell_command(req)
    ELSE Command(req.command, req.args)

NoCommands == [fn |-> "command", exec |-> NoCommand, sync |-> NoCommand, stream |-> NoCommand]

\* Each of the three handlers builds its command for the same request.
exec_build ==
    /\ arg.fn = "command"
    /\ ~result.exec.built
    /\ result' = [result EXCEPT !.exec = exec_command(arg)]
    /\ UNCHANGED <<proc_vars, ws_vars, sess_vars, sync_vars, io_vars, aux_vars, port_vars, arg>>

sync_build ==
    /\ arg.fn = "command"
    /\ ~result.sync.built
    /\ result' = [result EXCEPT !.sync = sync_command(arg)]
    /\ UNCHANGED <<proc_vars, ws_vars, sess_vars, sync_vars, io_vars, aux_vars, port_vars, arg>>

stream_build ==
    /\ arg.fn = "command"
    /\ ~result.stream.built
    /\ result' = [result EXCEPT !.stream = stream_command(arg)]
    /\ UNCHANGED <<proc_vars, ws_vars, sess_vars, sync_vars, io_vars, aux_vars, port_vars, arg>>

NextCommand ==
    \/ exec_build
    \/ sync_build
    \/ stream_build

\* ------------------------------------------------------- middleware/auth.rs

TokenChars == {"t", "k"}

ClientTokens == UNION {[1..n -> TokenChars] : n \in 0..MaxToken}

\* config.token after Config::load (config.rs:28-61): always Some; what the
\* operator set, which may be empty.
ConfigTokens == {<<"t", "k">>, <<>>}

Bearer == <<"B", "e", "a", "r", "e", "r", " ">>

\* What a client may send as the Authorization header.
HeaderValues ==
    {Bearer \o t : t \in ClientTokens}
        \cup ClientTokens
        \cup {<<"b", "e", "a", "r", "e", "r", " ", "t", "k">>,
              <<"B", "e", "a", "r", "e", "r", "t", "k">>}

RequestPaths == {"/health", "/health/live", "/health/ready", "/ws",
                 "/api/v1/process/exec", "/api/v1/sessions/create", "/nope"}

\* router.rs:13-60: the handler a path is routed to, "none" for the fallback.
route(path) ==
    CASE path = "/health" -> "health_check"
      [] path = "/health/ready" -> "readiness_check"
      [] path = "/ws" -> "ws_handler"
      [] path = "/api/v1/process/exec" -> "exec_process"
      [] path = "/api/v1/sessions/create" -> "create_session"
      [] OTHER -> "none"

\* str::starts_with
starts_with(str, prefix) ==
    Len(str) >= Len(prefix) /\ SubSeq(str, 1, Len(prefix)) = prefix

\* auth.rs:32
token_matches_start(token, expected_token) == starts_with(expected_token, token)

token_matches(token, expected_token) == token = expected_token

\* auth.rs:16-47: whether the request is passed on to next.
auth_passes(req) ==
    IF req.path = "/health" \/ req.path = "/health/live" \/ req.path = "/health/ready"
      THEN TRUE
    ELSE IF req.has_header /\ starts_with(req.header, Bearer)
      THEN LET token == SubSeq(req.header, 8, Len(req.header))
           IN  IF req.has_token THEN token_matches(token, req.token) ELSE FALSE
    ELSE FALSE

NoResponse == [fn |-> "request", pc |-> "auth", status |-> 0, handler |-> "none"]

\* auth_middleware, auth.rs:9-48
auth_middleware ==
    /\ arg.fn = "request"
    /\ result.pc = "auth"
    /\ result' = IF auth_passes(arg) THEN [result EXCEPT !.pc = "next"]
                 ELSE [result EXCEPT !.pc = "done", !.status = 401]
    /\ UNCHANGED <<proc_vars, ws_vars, sess_vars, sync_vars, io_vars, aux_vars, port_vars, arg>>

\* next.run(req), auth.rs:19 and 33: the router runs the path's handler, or
\* its fallback, which answers 404.
next_run ==
    /\ arg.fn = "request"
    /\ result.pc = "next"
    /\ result' = [result EXCEPT !.pc = "done", !.handler = route(arg.path),
                                !.status = IF route(arg.path) = "none" THEN 404 ELSE 200]
    /\ UNCHANGED <<proc_vars, ws_vars, sess_vars, sync_vars, io_vars, aux_vars, port_vars, arg>>

NextAuth ==
    \/ auth_middleware
    \/ next_run

\* ------------------------------------------- a session's shell and its pumps

\* What a client may put in the path of a cd.
CdPaths == {<<".", ".">>, <<"b">>, <<"/", "b", "/", ".", "/", "a">>}

\* session_exec and session_cd hold the registry's write guard from their
\* first line to their return, session.rs:285 and 326.
registry_write_locked_never == FALSE

registry_write_locked == sreq.pc # "idle"

\* session.rs:331-336: what a cd's path is resolved against.
cd_base_workspace(path) == WorkspacePath

cd_base(path) == IF is_absolute(path) THEN WorkspacePath ELSE cwd

\* session_exec or session_cd gets the registry's write guard and finds the
\* record, session.rs:285-288 and 326-329.
session_lock(op, path) ==
    /\ sreq.pc = "idle"
    /\ Len(cmds) < MaxCmds
    /\ session # NoSession
    /\ sreq' = [NoRequest EXCEPT !.pc = "locked", !.op = op, !.raw = path]
    /\ UNCHANGED <<proc_vars, ws_vars, sess_vars, sync_vars, fn_vars, aux_vars, port_vars,
                   cmds, stdin_pipe, shell_cmd, out_pipe, spump, cwd, appended>>

\* write_all on the shell's stdin returns when the pipe has taken the
\* command.
stdin_has_room == Len(stdin_pipe) < PipeCap

\* session_exec up to the end of its stdin write, session.rs:290-294
session_exec_write ==
    /\ sreq.pc = "locked" /\ sreq.op = "exec"
    /\ stdin_write_ok /\ stdin_has_room
    /\ cmds' = Append(cmds, "exec")
    /\ stdin_pipe' = Append(stdin_pipe, Len(cmds) + 1)
    /\ sreq' = [sreq EXCEPT !.pc = "written", !.k = Len(cmds) + 1]
    /\ UNCHANGED <<proc_vars, ws_vars, sess_vars, sync_vars, fn_vars, aux_vars, port_vars,
                   shell_cmd, out_pipe, spump, cwd, appended>>

\* session_cd up to the end of its stdin write, session.rs:330-342
session_cd_write ==
    /\ sreq.pc = "locked" /\ sreq.op = "cd"
    /\ stdin_write_ok /\ stdin_has_room
    /\ cmds' = Append(cmds, "cd")
    /\ stdin_pipe' = Append(stdin_pipe, Len(cmds) + 1)
    /\ sreq' = [sreq EXCEPT !.pc = "written", !.k = Len(cmds) + 1,
                            !.path = validate_path(cd_base(sreq.raw), sreq.raw).path]
    /\ UNCHANGED <<proc_vars, ws_vars, sess_vars, sync_vars, fn_vars, aux_vars, port_vars,
                   shell_cmd, out_pipe, spump, cwd, appended>>

\* The rest of session_exec, session.rs:296-313: the [exec] line and the
\* stub response; nobody is subscribed to the session's broadcaster.
session_exec_log ==
    /\ sreq.pc = "written" /\ sreq.op = "exec"
    /\ LET line == [prefix |-> "[exec]", n |-> 0, cmd |-> sreq.k]
       IN  /\ logs' = ring_push(logs, line)
           /\ appended' = Append(appended, line)
    /\ sresp' = [op |-> "exec", code |-> Success]
    /\ sreq' = NoRequest
    /\ UNCHANGED <<proc_vars, sync_vars, fn_vars, aux_vars, port_vars, session, shell, cleaner, terminate_ok,
                   target_type, produced, pump, consumers, spawned, active_subscriptions,
                   handler, sendq, emitted,
                   cmds, stdin_pipe, shell_cmd, out_pipe, spump, cwd>>

\* The rest of session_cd, session.rs:344-360: the new cwd, the [cd] line and
\* the response.
session_cd_log ==
    /\ sreq.pc = "written" /\ sreq.op = "cd"
    /\ cwd' = sreq.path
    /\ LET line == [prefix |-> "[cd]", n |-> 0, cmd |-> sreq.k, path |-> sreq.path]
       IN  /\ logs' = ring_push(logs, line)
           /\ appended' = Append(appended, line)
    /\ sresp' = [op |-> "cd", code |-> Success]
    /\ sreq' = NoRequest
    /\ UNCHANGED <<proc_vars, sync_vars, fn_vars, aux_vars, port_vars, session, shell, cleaner, terminate_ok,
                   target_type, produced, pump, consumers, spawned, active_subscriptions,
                   handler, sendq, emitted,
                   cmds, stdin_pipe, shell_cmd, out_pipe, spump>>

\* The lines a command writes, by stream and in order.
Plans == UNION {[1..n -> {"[stdout]", "[stderr]"}] : n \in 0..MaxReply}

\* The shell, done with its command, reads the next one; the command is one
\* that will write the lines of plan.
shell_read(plan) ==
    /\ stdin_pipe # <<>>
    /\ shell_cmd.plan = <<>>
    /\ Len(plan) + shell_cmd.out["[stdout]"] + shell_cmd.out["[stderr]"] <= MaxReply
    /\ shell_cmd' = [shell_cmd EXCEPT !.k = Head(stdin_pipe), !.plan = plan]
    /\ stdin_pipe' = Tail(stdin_pipe)
    /\ UNCHANGED <<proc_vars, ws_vars, sess_vars, sync_vars, fn_vars, aux_vars, port_vars,
                   sreq, cmds, out_pipe, spump, cwd, appended>>

\* The command the shell runs writes its next line, to s, when that pipe
\* has room.
shell_write(s) ==
    /\ shell_cmd.plan # <<>> /\ Head(shell_cmd.plan) = s
    /\ Len(out_pipe[s]) < PipeCap
    /\ out_pipe' = [out_pipe EXCEPT ![s] =
                       Append(@, [prefix |-> s, n |-> shell_cmd.out[s] + 1, cmd |-> shell_cmd.k])]
    /\ shell_cmd' = [shell_cmd EXCEPT !.plan = Tail(@), !.out[s] = @ + 1]
    /\ UNCHANGED <<proc_vars, ws_vars, sess_vars, sync_vars, fn_vars, aux_vars, port_vars,
                   sreq, cmds, stdin_pipe, spump, cwd, appended>>

\* reader.read_line returns in a pump of the session, session.rs:127-131 and
\* 154-158.
session_pump_read(s) ==
    /\ spump[s] = NoOut
    /\ out_pipe[s] # <<>>
    /\ spump' = [spump EXCEPT ![s] = Head(out_pipe[s])]
    /\ out_pipe' = [out_pipe EXCEPT ![s] = Tail(@)]
    /\ UNCHANGED <<proc_vars, ws_vars, sess_vars, sync_vars, fn_vars, aux_vars, port_vars,
                   sreq, cmds, stdin_pipe, shell_cmd, cwd, appended>>

\* The pump gets the registry's read guard and appends its line,
\* session.rs:132-139 and 159-166.
session_pump_append(s) ==
    /\ spump[s] # NoOut
    /\ ~registry_write_locked
    /\ logs' = ring_push(logs, spump[s])
    /\ appended' = Append(appended, spump[s])
    /\ spump' = [spump EXCEPT ![s] = NoOut]
    /\ UNCHANGED <<proc_vars, sess_vars, sync_vars, fn_vars, aux_vars, port_vars,
                   target_type, produced, pump, consumers, spawned, active_subscriptions,
                   handler, sendq, emitted,
                   sreq, cmds, stdin_pipe, shell_cmd, out_pipe, cwd>>

NextShell ==
    \/ session_lock("exec", <<>>)
    \/ \E path \in CdPaths : session_lock("cd", path)
    \/ session_exec_write
    \/ session_cd_write
    \/ session_exec_log
    \/ session_cd_log
    \/ \E plan \in Plans : shell_read(plan)
    \/ \E s \in Streams : shell_write(s)
    \/ \E s \in Streams : session_pump_read(s)
    \/ \E s \in Streams : session_pump_append(s)

\* --------------------------------------------- process logs as an SSE stream

\* What a client may put in ?tail= of a logs request.
Tails == {NoTail, 1}

\* get_process_logs, process.rs:353-354: the receiver is subscribed, then
\* the ring is copied.
LogsOrderSnapshotFirst == <<"snapshot", "subscribe">>

LogsOrder == <<"subscribe", "snapshot">>

\* process.rs:356-364
start_index(tail, len) == IF tail # NoTail /\ tail < len THEN len - tail ELSE 0

\* One of the two statements of process.rs:353-354, done by a handler that
\* goes on as ls.
logs_step(name, ls) ==
    IF name = "subscribe"
      THEN /\ consumers' = [consumers EXCEPT ![1] = [NoConsumer EXCEPT !.st = "rx"]]
           /\ logs_stream' = ls
      ELSE /\ logs_stream' = [ls EXCEPT !.replay =
                                 SubSeq(logs, start_index(ls.tail, Len(logs)) + 1, Len(logs))]
           /\ UNCHANGED consumers

\* get_process_logs with Accept: text/event-stream, process.rs:333-353: the
\* record is found and the first of the two statements is done.
get_process_logs(tail) ==
    /\ logs_stream.pc = "idle"
    /\ target_found("process")
    /\ logs_step(LogsOrder[1],
                 [NoStream EXCEPT !.pc = "opening", !.tail = tail, !.from = produced])
    /\ UNCHANGED <<proc_vars, sess_vars, sync_vars, fn_vars, io_vars, port_vars,
                   target_type, logs, produced, pump, spawned, active_subscriptions,
                   handler, sendq, emitted>>

\* The second statement and the response, process.rs:354-381.
get_process_logs_open ==
    /\ logs_stream.pc = "opening"
    /\ logs_step(LogsOrder[2], [logs_stream EXCEPT !.pc = "open"])
    /\ UNCHANGED <<proc_vars, sess_vars, sync_vars, fn_vars, io_vars, port_vars,
                   target_type, logs, produced, pump, spawned, active_subscriptions,
                   handler, sendq, emitted>>

\* The response stream yields its next event, process.rs:366-376: the copied
\* lines first, then what the receiver gets; a receiver that was overrun
\* yields an error event and goes on with the oldest line still kept.
logs_stream_next ==
    /\ logs_stream.pc = "open"
    /\ LET rx == consumers[1]
       IN  IF logs_stream.replay # <<>>
             THEN /\ logs_stream' = [logs_stream EXCEPT
                         !.replay = Tail(@),
                         !.out = Append(@, [log |-> Head(logs_stream.replay), live |-> FALSE])]
                  /\ UNCHANGED consumers
           ELSE IF rx.lagged
             THEN /\ logs_stream' = [logs_stream EXCEPT
                         !.lagged = TRUE,
                         !.out = Append(@, [log |-> NoLine, live |-> TRUE])]
                  /\ consumers' = [consumers EXCEPT ![1].lagged = FALSE]
           ELSE /\ rx.inbox # <<>>
                /\ logs_stream' = [logs_stream EXCEPT
                         !.out = Append(@, [log |-> Head(rx.inbox), live |-> TRUE])]
                /\ consumers' = [consumers EXCEPT ![1].inbox = Tail(@)]
    /\ UNCHANGED <<proc_vars, sess_vars, sync_vars, fn_vars, io_vars, port_vars,
                   target_type, logs, produced, pump, spawned, active_subscriptions,
                   handler, sendq, emitted>>

NextLogs ==
    \/ \E s \in Streams : pump_append(s)
    \/ \E s \in Streams : pump_send(s)
    \/ \E tail \in Tails : get_process_logs(tail)
    \/ get_process_logs_open
    \/ logs_stream_next

\* The record's waiter removes it from its registry, process.rs:247-250 and
\* session.rs:197-200, which needs the registry's write guard; the ring goes
\* with the record, the broadcaster lives on in the pumps.
target_remove ==
    /\ target_type # "gone"
    /\ handler.pc # "replay"
    /\ target_type' = "gone"
    /\ logs' = <<>>
    /\ UNCHANGED <<rest_vars, sync_vars, sess_vars, proc_vars, produced, pump, consumers, spawned, active_subscriptions,
                   handler, sendq, emitted>>

\* The client goes away: the receive loop ends, the subscription map is
\* dropped with the handler and send_task is aborted, which drops the queue's
\* receiver, websocket.rs:145 and 418-421.  The consumer tasks are not told.
ws_disconnect ==
    /\ handler.pc = "idle"
    /\ handler' = [Idle EXCEPT !.pc = "closed"]
    /\ active_subscriptions' = [t \in Types |-> NoSub]
    /\ sendq' = <<>>
    /\ UNCHANGED <<rest_vars, sync_vars, sess_vars, proc_vars, target_type, logs, produced, pump, consumers, spawned, emitted>>

NextWs ==
    \/ \E s \in Streams : pump_append(s)
    \/ \E s \in Streams : pump_send(s)
    \/ \E t \in Types, l \in LevelSets, n \in 0..RingCap : ws_subscribe(t, l, n)
    \/ ws_replay
    \/ ws_replay_done
    \/ ws_attach
    \/ ws_confirm
    \/ \E t \in Types : ws_unsubscribe(t)
    \/ ws_reply
    \/ \E i \in 1..MaxSubs : consumer_recv(i)
    \/ \E i \in 1..MaxSubs : consumer_send(i)
    \/ send_task

\* The levels filters a client asks for on a session.
SessionLevelSets == LevelSets \cup {{"system"}}

\* The socket, the session's two pumps and its exec and cd requests.
NextWsSession ==
    \/ \E s \in Streams : pump_append(s)
    \/ \E s \in Streams : pump_send(s)
    \/ \E t \in Types, l \in SessionLevelSets, n \in 0..RingCap : ws_subscribe(t, l, n)
    \/ ws_replay
    \/ ws_replay_done
    \/ ws_attach
    \/ ws_confirm
    \/ \E t \in Types : ws_unsubscribe(t)
    \/ ws_reply
    \/ \E i \in 1..MaxSubs : consumer_recv(i)
    \/ \E i \in 1..MaxSubs : consumer_send(i)
    \/ send_task
    \/ session_exec
    \/ session_cd

NextWsClose ==
    \/ NextWs
    \/ ws_disconnect

NextWsGone ==
    \/ NextWs
    \/ target_remove

NextProc ==
    \/ \E id \in ProcIds, t \in BOOLEAN, ok \in BOOLEAN : exec_process(id, t, ok)
    \/ \E id \in ProcIds, c \in ExitCodes : child_exit(id, c)
    \/ \E id \in ProcIds, name \in SignalNames : kill_process(id, name)
    \/ \E id \in ProcIds : waiter_take(id)
    \/ \E id \in ProcIds : timeout_elapsed(id)
    \/ \E id \in ProcIds : waiter_start_kill(id)
    \/ \E id \in ProcIds : waiter_wait(id)
    \/ \E id \in ProcIds : waiter_write(id)
    \/ \E id \in ProcIds : waiter_remove(id)

vars == <<processes, child, waiter, resp, os_signal, kill_ok,
          target_type, logs, produced, pump, consumers, spawned,
          active_subscriptions, handler, sendq, emitted,
          session, shell, cleaner, sresp, terminate_ok,
          sync, sync_child, stream, stream_child, pipe, sse,
          arg, result,
          sreq, cmds, stdin_pipe, shell_cmd, out_pipe, spump, cwd, appended,
          logs_stream,
          ports, last_updated, refresh_mutex, callers, now, listening>>

\* The process engine alone; the socket stays as created.
SocketUnused ==
    /\ target_type = "process"
    /\ logs = <<>>
    /\ produced = 0
    /\ pump = [s \in Streams |-> NoLine]
    /\ consumers = [i \in 1..MaxSubs |-> NoConsumer]
    /\ spawned = 0
    /\ active_subscriptions = [t \in Types |-> NoSub]
    /\ handler = Idle
    /\ sendq = <<>>
    /\ emitted = <<>>

Init == InitProc /\ SocketUnused /\ SessionUnused /\ SyncUnused /\ RestUnused

Next == NextProc

Spec == Init /\ [][Next]_vars

\* One socket and the record it subscribes to; no process request is made.
InitSocket == InitProc /\ InitWs /\ SessionUnused /\ SyncUnused /\ RestUnused

SpecWs == InitSocket /\ [][NextWs]_vars

\* One session from its creation on; no socket is open.
InitSession ==
    /\ InitProc
    /\ InitWs
    /\ target_type = "session"
    /\ SessionCreated
    /\ SyncUnused
    /\ RestUnused

SpecSession == InitSession /\ [][NextSession]_vars

\* The runtime runs the cleanup task whenever it can run, and its timer fires.
FairSession == InitSession /\ [][NextSession]_vars /\ WF_vars(CleanerStep)

\* One exec-sync request and one sync-stream request; nothing else runs.
SpecSync == Init /\ [][NextSync]_vars

\* One call of validate_path.
InitPath ==
    /\ InitProc /\ SocketUnused /\ SessionUnused /\ SyncUnused /\ IoIdle /\ AuxUnused /\ PortUnused
    /\ arg \in [fn : {"validate_path"}, base : BasePaths, user : UserPaths]
    /\ result = NoResult

\* validate_path on every base and every user path up to MaxPath characters.
SpecPath == InitPath /\ [][NextPath]_vars

\* One request given to exec, exec-sync and sync-stream.
InitCommand ==
    /\ InitProc /\ SocketUnused /\ SessionUnused /\ SyncUnused /\ IoIdle /\ AuxUnused /\ PortUnused
    /\ arg \in Requests
    /\ result = NoCommands

SpecCommand == InitCommand /\ [][NextCommand]_vars

\* One request on its way through the auth layer.
InitAuth ==
    /\ InitProc /\ SocketUnused /\ SessionUnused /\ SyncUnused /\ IoIdle /\ AuxUnused /\ PortUnused
    /\ arg \in {r \in [fn : {"request"}, path : RequestPaths,
                        has_header : BOOLEAN, header : HeaderValues,
                        has_token : {TRUE}, token : ConfigTokens] :
                    ~r.has_header => r.header = <<>>}
    /\ result = NoResponse

SpecAuth == InitAuth /\ [][NextAuth]_vars

\* One session, its shell, its two pumps and its exec and cd requests.
SpecShell == InitSession /\ [][NextShell]_vars

\* One process record with its pumps, and one SSE request for its logs.
InitLogs == InitSocket /\ target_type = "process"

SpecLogs == InitLogs /\ [][NextLogs]_vars

\* The process records and one session: every request and task that touches
\* a child, its pid or the slot that holds it.
NextChildren ==
    \/ NextProc
    \/ terminate_session
    \/ shell_exit
    \/ cleaner_take
    \/ cleaner_wait
    \/ cleaner_write
    \/ cleaner_remove

SpecChildren == InitSession /\ [][NextChildren]_vars

\* The ring of one record and everything that appends to it: the two pumps
\* and, for a session, exec and cd.
InitRing ==
    /\ InitProc
    /\ InitWs
    /\ IF target_type = "session" THEN SessionCreated ELSE SessionUnused
    /\ SyncUnused
    /\ RestUnused

NextRing ==
    \/ \E s \in Streams : pump_append(s)
    \/ \E s \in Streams : pump_send(s)
    \/ session_exec
    \/ session_cd

SpecRing == InitRing /\ [][NextRing]_vars

\* One socket and the session it subscribes to, with requests on the session.
SpecWsSession == InitSession /\ [][NextWsSession]_vars

\* The same socket with a record that may be removed meanwhile.
SpecWsGone == InitSocket /\ [][NextWsGone]_vars

\* The same socket with a client that may go away.
SpecWsClose == InitSocket /\ [][NextWsClose]_vars

\* The runtime schedules every spawned task that can run, so the waiter's own
\* steps are weakly fair.  The deadline, the child and the clients are not.
WaiterStep ==
    \E id \in ProcIds :
        \/ waiter_take(id)
        \/ waiter_start_kill(id)
        \/ waiter_wait(id)
        \/ waiter_write(id)
        \/ waiter_remove(id)

FairSpec == Init /\ [][Next]_vars /\ WF_vars(WaiterStep)

\* ------------------------------------------------------------------ claims

Terminal == {"completed", "failed", "killed"}

Drained(id) == waiter[id].pc \in {"write", "sleep", "done"}

\* C1: a record's status only ever changes from running to one of
\* completed/failed/killed; once terminal it never changes to another value.
C1_StatusLeavesOnlyRunning ==
    [][\A id \in ProcIds :
         (/\ processes[id] # NoProc
          /\ processes'[id] # NoProc
          /\ processes'[id].status # processes[id].status)
         => (processes[id].status = "running" /\ processes'[id].status \in Terminal)]_vars

\* C2: whenever a record shows a terminal status, the waiter's wait() on its
\* child has already returned.
C2_TerminalOnlyAfterDrain ==
    \A id \in ProcIds :
        (processes[id] # NoProc /\ processes[id].status \in Terminal) => Drained(id)

\* C3 (as claimed): after any kill(id) has returned success, every later
\* kill(id) answers conflict while the record exists.
C3_KillAfterAnyKillConflicts ==
    (resp.op = "kill" /\ resp.after # "none" /\ resp.code # NotFound)
        => resp.code = Conflict

\* C3 (amended): after a kill(id) that sent SIGKILL (the default, or an
\* unknown name) has returned success, every later kill(id) answers conflict
\* while the record exists.
C3_KillAfterSigkillConflicts ==
    (resp.op = "kill" /\ resp.after = "hard" /\ resp.code # NotFound)
        => resp.code = Conflict

C3_Witness == resp.op = "kill" /\ resp.after = "hard" /\ resp.code = Conflict

\* C4: kill on an id that is not in the registry answers not-found, kill on
\* a record that is not running answers conflict, and in both cases no
\* signal is sent and no record changes.
C4_RejectedKillChangesNothing ==
    [][\A id \in ProcIds :
         (/\ resp'.op = "kill"
          /\ processes[id] = NoProc \/ processes[id].status # "running"
          /\ \E name \in SignalNames : kill_process(id, name))
         => (/\ resp'.code = IF processes[id] = NoProc THEN NotFound ELSE Conflict
             /\ UNCHANGED <<processes, child, waiter, os_signal>>)]_vars

C4_Witness ==
    /\ resp.op = "kill" /\ resp.code = Conflict
    /\ \E id \in ProcIds : processes[id] # NoProc /\ processes[id].status = "completed"

C6_TimedOutNeverCompleted ==
    \A id \in ProcIds :
        (waiter[id].expired /\ waiter[id].pc = "sleep" /\ processes[id] # NoProc)
            => processes[id].status \in {"failed", "killed"}

\* The log events enqueued for subscription s, in the order they were enqueued.
EventsOf(s) == SelectSeq(emitted, LAMBDA m : m.sub = s)

HistoryOf(s) == SelectSeq(emitted, LAMBDA m : m.sub = s /\ m.is_history)

\* C7: for every subscription, the sequence values of its log events, in
\* emission order over history and live events together, start at 0 and
\* strictly increase.
C7_SequenceStartsAtZeroAndIncreases ==
    \A s \in 1..MaxSubs :
        LET ev == EventsOf(s)
        IN  /\ ev # <<>> => ev[1].sequence = 0
            /\ \A k \in 1..(Len(ev) - 1) : ev[k].sequence < ev[k + 1].sequence

\* C8: the k history events emitted for a subscription carry the sequence
\* values 0, 1, ..., k-1; entries the levels filter skips do not count.
C8_HistoryCountsEmittedEntries ==
    \A s \in 1..MaxSubs :
        LET h == HistoryOf(s)
        IN  \A k \in 1..Len(h) : h[k].sequence = k - 1

\* C9: for every subscription, every history event is enqueued on the
\* socket's send queue before any live event of that subscription, whatever
\* the log pumps do meanwhile.
C9_HistoryBeforeLive ==
    \A s \in 1..MaxSubs :
        LET ev == EventsOf(s)
        IN  \A j \in 1..Len(ev), k \in 1..Len(ev) :
                (j < k /\ ~ev[j].is_history) => ~ev[k].is_history

\* A subscription that replayed a line the pumps wrote and then got a live one.
C9_Witness ==
    \E s \in 1..MaxSubs :
        LET ev == EventsOf(s)
        IN  /\ Len(ev) >= 2
            /\ ev[1].is_history
            /\ ~ev[Len(ev)].is_history

\* C10: once an unsubscribe for a key has been processed, no live log event
\* for that key is enqueued until a new subscribe for the key is accepted,
\* that is, while the key is not in active_subscriptions.
C10_NoLiveEventAfterUnsubscribe ==
    [][(/\ Len(emitted') = Len(emitted) + 1
        /\ ~emitted'[Len(emitted')].is_history)
       => active_subscriptions[emitted'[Len(emitted')].key] # NoSub]_vars

\* C11: a consumer that has fallen behind its broadcaster loses the
\* overflowed lines only; its task never ends because of the overflow.
C11_LaggedConsumerKeepsRunning ==
    \A i \in 1..MaxSubs : consumers[i].st # "stopped"

\* The replay is at an entry that passes the filter and the socket's queue is
\* full: the handler waits in tx_clone.send with the ring's read guard held,
\* until the client takes a message.
ReplayWaitsForClient ==
    /\ handler.pc = "replay"
    /\ handler.i < Len(logs) - start_idx(handler.tail)
    /\ passes(handler.levels, logs[start_idx(handler.tail) + handler.i + 1])
    /\ ~has_room

\* C12: whenever a pump has a line to append, it is not kept from the ring
\* by a handler that waits for the client to read.
C12_PumpNeverWaitsForClient ==
    \A s \in Streams :
        (pump[s] = NoLine /\ produced < MaxLines)
            => ~(ring_read_locked /\ ReplayWaitsForClient)

\* C13: after the client has gone, a consumer task that handles a line
\* ends with it (at once, or in the send the line leads to), whatever the
\* line's level and the subscription's filter.
C13_ConsumerEndsOnNextLineAfterDisconnect ==
    [][\A i \in 1..MaxSubs :
         (/\ queue_closed
          /\ consumers[i].st = "recv"
          /\ consumers'[i] # consumers[i]
          /\ Len(consumers'[i].inbox) < Len(consumers[i].inbox))
         => consumers'[i].st \in {"send", "stopped", "closed"}]_vars

\* C17: a subscribe for a key that is in the socket's map is answered with
\* error 1400 and replays nothing, attaches no consumer and leaves the map.
C17_DuplicateSubscribeOnlyAnswers1400 ==
    [][\A t \in Types :
         (/\ handler.pc = "idle"
          /\ active_subscriptions[t] # NoSub
          /\ \E l \in LevelSets, n \in 0..RingCap : ws_subscribe(t, l, n))
         => (/\ handler' = Failing(1400, "Subscription already exists")
             /\ UNCHANGED <<emitted, sendq, consumers, spawned, active_subscriptions>>)]_vars

\* A duplicate subscribe has been answered: the 1400 error is on the socket's
\* queue while the first subscription is still the only one.
C17_Witness ==
    /\ \E k \in 1..Len(sendq) : sendq[k].kind = "error" /\ sendq[k].status = 1400
    /\ spawned = 1
    /\ \E t \in Types : active_subscriptions[t] # NoSub

\* C18 (as claimed): a subscribe whose target is not in the registry of the
\* named type is answered with error 1404, emits no log event, spawns no
\* consumer and adds nothing to the socket's map.
C18_MissingTargetAnswers1404 ==
    [][\A t \in Types :
         (/\ handler.pc = "idle"
          /\ t # target_type
          /\ \E l \in LevelSets, n \in 0..RingCap : ws_subscribe(t, l, n))
         => (/\ handler' = Failing(1404, "Target not found")
             /\ UNCHANGED <<emitted, sendq, consumers, spawned, active_subscriptions>>)]_vars

\* C18 (amended): the same for a subscribe whose key is not in the socket's
\* map; a key that is in the map is answered 1400 before the registry is
\* looked at.
C18_MissingTargetAnswers1404UnlessDuplicate ==
    [][\A t \in Types :
         (/\ handler.pc = "idle"
          /\ t # target_type
          /\ active_subscriptions[t] = NoSub
          /\ \E l \in LevelSets, n \in 0..RingCap : ws_subscribe(t, l, n))
         => (/\ handler' = Failing(1404, "Target not found")
             /\ UNCHANGED <<emitted, sendq, consumers, spawned, active_subscriptions>>)]_vars

\* A subscribe to a record that has been removed is being answered.
C18_Witness ==
    /\ target_type = "gone"
    /\ handler = Failing(1404, "Target not found")

\* A request on the session id is answered.
SessionOp ==
    \/ session_exec
    \/ session_cd
    \/ \E e \in BOOLEAN : update_session_env(e)
    \/ get_session
    \/ get_session_logs
    \/ terminate_session

\* C19: after a terminate has succeeded the cleanup task eventually removes
\* the record, and once the record is removed it stays removed and cd, exec,
\* env-update, get, logs and terminate on the id all answer not-found.
C19_TerminatedSessionIsRemoved ==
    /\ terminate_ok ~> (session = NoSession)
    /\ [][session = NoSession
            => (/\ session' = NoSession
                /\ SessionOp => sresp'.code = NotFound)]_vars

\* A terminate succeeded, the record has been removed and an exec on the id
\* has been answered not-found.
C19_Witness ==
    /\ terminate_ok
    /\ session = NoSession
    /\ sresp = [op |-> "exec", code |-> NotFound]

\* C20: a session record is active from its creation; its status changes
\* only to terminated, only by the cleanup task after the shell's exit or by
\* a successful terminate, both of which leave it terminated; no exec, cd,
\* env-update or terminate makes a terminated record active again.
C20_SessionStatusOnlyTerminates ==
    /\ session # NoSession /\ session.status = "active"
    /\ [][(session # NoSession /\ session' # NoSession)
            => (/\ session.status = "terminated" => session'.status = "terminated"
                /\ session'.status # session.status
                     => (/\ session'.status = "terminated"
                         /\ \/ cleaner = "write" /\ cleaner' = "sleep"
                            \/ sresp' = [op |-> "terminate", code |-> Success])
                /\ (terminate_session /\ sresp'.code = Success)
                     => session'.status = "terminated"
                /\ cleaner_write => session'.status = "terminated")]_vars

\* A terminated record has had an exec, cd or env-update since.
C20_Witness ==
    /\ session # NoSession
    /\ session.status = "terminated"
    /\ sresp.op \in {"exec", "cd", "env"}

\* C14: the ring never holds more than its capacity, and after N appends it
\* holds exactly the last min(N, capacity) appended lines in append order,
\* whoever appended them.
C14_RingHoldsLastLines ==
    /\ Len(logs) <= RingCap
    /\ Len(logs) = IF produced < RingCap THEN produced ELSE RingCap
    /\ \A k \in 1..Len(logs) : logs[k].n = produced - Len(logs) + k

\* A session's ring has evicted a line and holds a pump's line and a
\* synthetic one.
C14_Witness ==
    /\ produced > RingCap
    /\ Len(logs) = RingCap
    /\ \E k \in 1..Len(logs) : logs[k].prefix \in Streams
    /\ \E k \in 1..Len(logs) : logs[k].prefix \in {"[exec]", "[cd]"}

\* C15: when exec-sync's time limit has expired before the child exited,
\* the response is an internal error and the child has been killed: it does
\* not keep running after the response.
C15_SyncTimeoutKillsChild ==
    (sync.pc = "done" /\ sync.timed_out)
        => (sync.code = InternalError /\ sync_child # "running")

\* C16: in a sync-stream response the complete or error event is the last
\* event: no event follows it.
C16_TerminalEventIsLast ==
    \A k \in 1..(Len(sse) - 1) : sse[k] \notin {"complete", "error"}

\* The non-empty pieces of a path.
Parts(path) == SelectSeq(split(path), LAMBDA sg : sg # <<>>)

\* A path normalised by rewriting: the "." pieces go, then the first ".."
\* goes together with the piece before it, if there is one, until no ".."
\* is left.
RECURSIVE Reduce(_)
Reduce(parts) ==
    LET ups == {i \in 1..Len(parts) : parts[i] = <<".", ".">>}
    IN  IF ups = {} THEN parts
        ELSE LET i == CHOOSE k \in ups : \A j \in ups : k <= j
             IN  Reduce(SubSeq(parts, 1, i - 2) \o SubSeq(parts, i + 1, Len(parts)))

RECURSIVE Render(_, _)
Render(abs, parts) ==
    IF parts = <<>> THEN (IF abs THEN <<"/">> ELSE <<>>)
    ELSE IF Len(parts) = 1 THEN (IF abs THEN <<"/">> ELSE <<>>) \o parts[1]
    ELSE Render(abs, SubSeq(parts, 1, Len(parts) - 1)) \o <<"/">> \o parts[Len(parts)]

Normalised(path) ==
    Render(is_absolute(path), Reduce(SelectSeq(Parts(path), LAMBDA sg : sg # <<".">>)))

\* C25: validate_path never fails and returns the textual normalisation of
\* the user path when it is absolute, of the base joined with it otherwise,
\* and "." when that is empty.
C25_ValidatePathNormalises ==
    result # NoResult =>
        /\ result.ok
        /\ LET full == IF is_absolute(arg.user) THEN arg.user
                       ELSE arg.base \o <<"/">> \o arg.user
               norm == Normalised(full)
           IN  result.path = IF norm = <<>> THEN <<".">> ELSE norm

\* A relative path whose ".." removes a component of the base has been
\* resolved.
C25_Witness ==
    /\ result # NoResult
    /\ arg.base = <<"/", "a", "/", "b">>
    /\ arg.user = <<".", ".", "/", "b">>
    /\ result.path = <<"/", "a", "/", "b">>

\* p is root or lies under it.
Under(p, root) ==
    /\ Len(Parts(root)) <= Len(Parts(p))
    /\ SubSeq(Parts(p), 1, Len(Parts(root))) = Parts(root)

\* C24 (as claimed): validate_path(workspace, "..") is the workspace root or
\* lies under it.
C24_DotDotStaysInWorkspace ==
    (result # NoResult /\ arg.user = <<".", ".">>) => Under(result.path, arg.base)

\* C24 (amended): validate_path(workspace, "..") is the workspace path with
\* its last component removed (the root stays the root, an empty result is
\* "."): the parent of the workspace, outside the workspace whenever the
\* workspace has a last component.
C24_DotDotIsParentOfWorkspace ==
    (result # NoResult /\ arg.user = <<".", ".">>) =>
        LET ws == Parts(arg.base)
            parent == Render(is_absolute(arg.base), SubSeq(ws, 1, Len(ws) - 1))
        IN  /\ result.path = IF parent = <<>> THEN <<".">> ELSE parent
            /\ ws # <<>> => ~Under(result.path, arg.base)

C24_Witness ==
    /\ result # NoResult
    /\ arg.user = <<".", ".">>
    /\ arg.base = <<"/", "a", "/", "b">>
    /\ result.path = <<"/", "a">>

\* C27: for the same command, args and shell, exec, exec-sync and
\* sync-stream launch the same binary with the same argument vector.
C27_SameCommandInAllThree ==
    /\ (result.exec.built /\ result.sync.built) => result.exec = result.sync
    /\ (result.exec.built /\ result.stream.built) => result.exec = result.stream
    /\ (result.sync.built /\ result.stream.built) => result.sync = result.stream

\* The request carries exactly "Bearer " followed by the configured token.
Authorized == arg.has_header /\ arg.header = Bearer \o arg.token

\* C23 (as claimed): for every request whose path is not /health or
\* /health/ready, the handler runs only if the Authorization header is
\* exactly "Bearer " followed by the configured token; otherwise the response
\* is 401 and no handler has run.
C23_OnlyHealthBypassesAuth ==
    (result.pc = "done" /\ arg.path \notin {"/health", "/health/ready"} /\ ~Authorized)
        => (result.status = 401 /\ result.handler = "none")

\* C23 (amended): the same for every path that is not /health, /health/live
\* or /health/ready.
C23_OnlyHealthPathsBypassAuth ==
    (result.pc = "done"
     /\ arg.path \notin {"/health", "/health/live", "/health/ready"}
     /\ ~Authorized)
        => (result.status = 401 /\ result.handler = "none")

\* The upgrade request of a socket came with a token that is the start of
\* the configured one and was refused.
C23_Witness ==
    /\ result.pc = "done"
    /\ arg.path = "/ws"
    /\ arg.header = Bearer \o <<"t">>
    /\ arg.token = <<"t", "k">>
    /\ result.status = 401

\* C26: an exec whose spawn fails returns operation-error and leaves the
\* process registry unchanged: no record is inserted and no waiter (and with
\* it no log pump) is started.
C26_FailedSpawnLeavesRegistry ==
    [][\A id \in ProcIds, t \in BOOLEAN :
         exec_process(id, t, FALSE)
            => (/\ resp' = [op |-> "exec", code |-> OperationError, after |-> "none"]
                /\ UNCHANGED <<processes, child, waiter>>)]_vars

\* An exec has been answered operation-error and the registry is empty.
C26_Witness ==
    /\ resp.op = "exec"
    /\ resp.code = OperationError
    /\ \A id \in ProcIds : processes[id] = NoProc /\ waiter[id].pc = "none"

\* C29: when the waiter writes the result of a child's exit, the status is
\* completed iff the exit reports success, killed iff a signal s ended the
\* child (exit_code 128 + s) and failed otherwise (exit_code the child's
\* own); end_time is set in the same write.
C29_WaiterWritesExitResult ==
    [][\A id \in ProcIds :
         (waiter[id].pc = "write" /\ processes[id] # NoProc /\ waiter_write(id))
            => LET ex == child[id].exit
                   p == processes'[id]
               IN  /\ p.status = "completed" <=> (ex.kind = "code" /\ ex.n = 0)
                   /\ p.status = "killed" <=> ex.kind = "signal"
                   /\ p.status = "failed" <=> (ex.kind = "code" /\ ex.n # 0)
                   /\ p.exit_code = IF ex.kind = "signal" THEN 128 + ex.n ELSE ex.n
                   /\ p.end_time]_vars

\* The waiter has written the result of a child that SIGTERM ended.
C29_Witness ==
    \E id \in ProcIds :
        /\ waiter[id].pc = "sleep"
        /\ processes[id] # NoProc
        /\ processes[id].status = "killed"
        /\ processes[id].exit_code = 128 + SIGTERM
        /\ processes[id].end_time

\* The levels the subscription an event was made for asked for.
LevelsOf(s) == IF consumers[s].st # "none" THEN consumers[s].levels ELSE handler.levels

\* C28: every log event, history or live, carries the level its ring line's
\* prefix stands for, and when its subscription's levels set is not empty
\* that level is in it.
C28_EventLevelFromPrefixAndInFilter ==
    \A k \in 1..Len(emitted) :
        LET e == emitted[k]
        IN  /\ e.level = CASE e.log.prefix = "[stdout]" -> "stdout"
                           [] e.log.prefix = "[stderr]" -> "stderr"
                           [] e.log.prefix \in {"[system]", "[exec]", "[cd]"} -> "system"
                           [] OTHER -> "unknown"
            /\ LevelsOf(e.sub) # {} => e.level \in LevelsOf(e.sub)

\* A subscription that asked for system lines has replayed an [exec] line
\* and got a [cd] line live, while a pump's line is in the ring.
C28_Witness ==
    /\ \E k \in 1..Len(emitted) :
          /\ emitted[k].is_history
          /\ emitted[k].log.prefix = "[exec]"
          /\ LevelsOf(emitted[k].sub) = {"system"}
    /\ \E k \in 1..Len(emitted) :
          /\ ~emitted[k].is_history
          /\ emitted[k].log.prefix = "[cd]"
    /\ \E k \in 1..Len(logs) : logs[k].prefix \in Streams


\* Where in the append history the "[exec]" line of request k stands.
ExecLines(k) ==
    {i \in 1..Len(appended) : appended[i].prefix = "[exec]" /\ appended[i].cmd = k}

\* Request k is an exec and has returned.
Returned(k) == k <= Len(cmds) /\ cmds[k] = "exec" /\ sreq.k # k

\* C21: an exec that succeeds has written its command to the shell's stdin
\* and appended exactly one "[exec]" line by the time it returns its stub,
\* whatever the shell has or has not done by then, and every output line the
\* shell writes in answer to that command is appended after that line.
C21_ExecLinePrecedesItsOutput ==
    \A k \in 1..MaxCmds :
        /\ Cardinality(ExecLines(k)) <= 1
        /\ Returned(k) =>
              /\ Cardinality(ExecLines(k)) = 1
              /\ \/ k \in {stdin_pipe[i] : i \in 1..Len(stdin_pipe)}
                 \/ shell_cmd.k >= k
        /\ (k <= Len(cmds) /\ cmds[k] = "exec") =>
              \A i \in 1..Len(appended) :
                  (appended[i].prefix \in Streams /\ appended[i].cmd = k)
                      => \E j \in ExecLines(k) : j < i

\* An exec that has returned its stub and whose output line the pump
\* appended after its "[exec]" line.
C21_Witness ==
    /\ Len(appended) >= 2
    /\ appended[1] = [prefix |-> "[exec]", n |-> 0, cmd |-> 1]
    /\ appended[2].prefix \in Streams /\ appended[2].cmd = 1
    /\ sresp = [op |-> "exec", code |-> Success]


\* What the claim says a cd of raw path leaves in cwd: the normalisation of
\* the path itself when it is absolute, of the cwd joined with it otherwise.
CdTarget(raw) ==
    LET norm == Normalised(IF is_absolute(raw) THEN raw ELSE cwd \o <<"/">> \o raw)
    IN  IF norm = <<>> THEN <<".">> ELSE norm

\* C22: a cd that succeeds sets the session's cwd to the normalised join of
\* the cwd it found and its path when the path is relative, to the
\* normalised path when it is absolute, and appends exactly one "[cd]" line
\* that carries the new cwd; so each cd of a sequence resolves against the
\* cwd the one before it left.
C22_CdResolvesAgainstCwd ==
    [][(sreq.pc = "written" /\ sreq.op = "cd" /\ sreq'.pc = "idle") =>
          /\ cwd' = CdTarget(sreq.raw)
          /\ appended' = Append(appended, [prefix |-> "[cd]", n |-> 0, cmd |-> sreq.k,
                                           path |-> CdTarget(sreq.raw)])
          /\ sresp' = [op |-> "cd", code |-> Success]]_vars

\* cd .. from /a and then cd b: the second resolved against the /, not /a.
C22_Witness ==
    /\ cmds = <<"cd", "cd">>
    /\ sreq = NoRequest
    /\ cwd = <<"/", "b">>
    /\ \E i, j \in 1..Len(appended) :
          /\ i < j
          /\ appended[i] = [prefix |-> "[cd]", n |-> 0, cmd |-> 1, path |-> <<"/">>]
          /\ appended[j] = [prefix |-> "[cd]", n |-> 0, cmd |-> 2, path |-> <<"/", "b">>]


\* C30: the lines of one stream stand in the ring in the order the child
\* wrote them to that stream, however the two pumps, the exec and cd appends
\* and the evictions interleave.
C30_StreamOrderInRing ==
    \A i, j \in 1..Len(logs) :
        (i < j /\ logs[i].prefix \in Streams /\ logs[i].prefix = logs[j].prefix)
            => logs[i].n < logs[j].n

\* The ring has evicted lines, the other stream's pump has appended, and
\* the ring holds two lines of one stream.
C30_Witness ==
    /\ Len(appended) > RingCap
    /\ \E s \in Streams :
          /\ \E i \in 1..Len(appended) : appended[i].prefix \in Streams \ {s}
          /\ \A k \in 1..Len(logs) : logs[k].prefix = s
          /\ Len(logs) = RingCap


\* C31: the child is taken out of a process or session record at most once,
\* by the record's own waiter task at its first step; only that task waits
\* on the child; and once taken the record's child slot stays empty.
C31_ChildTakenOnceByItsWaiter ==
    [][/\ \A id \in ProcIds :
            /\ (/\ processes[id] # NoProc /\ processes'[id] # NoProc
                /\ processes'[id].child # processes[id].child)
                  => (processes[id].child /\ waiter[id].pc = "take" /\ waiter'[id].pc = "wait")
            /\ (child[id].st # "reaped" /\ child'[id].st = "reaped")
                  => (waiter[id].pc = "wait" /\ waiter'[id].pc = "write")
            /\ (waiter'[id].pc \in {"wait", "kill", "write", "sleep"} /\ processes'[id] # NoProc)
                  => ~processes'[id].child
       /\ (session # NoSession /\ session' # NoSession /\ session'.child # session.child)
             => (session.child /\ cleaner = "start" /\ cleaner' = "wait")
       /\ (shell # "reaped" /\ shell' = "reaped") => (cleaner = "wait" /\ cleaner' = "write")
       /\ (cleaner' \in {"wait", "write", "sleep"} /\ session' # NoSession) => ~session'.child
      ]_vars

\* A process record and the session record, both with their child taken and
\* waited on by their waiters.
C31_Witness ==
    /\ \E id \in ProcIds :
          processes[id] # NoProc /\ ~processes[id].child /\ child[id].st = "reaped"
    /\ session # NoSession /\ ~session.child /\ shell = "reaped"


\* C32: a process record leaves the registry only in the last step of its
\* own waiter, after that waiter has written a terminal status and end_time,
\* hence never while its child runs; and once the child of a record has
\* exited, the record is eventually removed.
C32_RemovedByWaiterAfterWrite ==
    /\ [][\A id \in ProcIds :
            (processes[id] # NoProc /\ processes'[id] = NoProc)
                => /\ waiter[id].pc = "sleep" /\ waiter'[id].pc = "done"
                   /\ processes[id].status \in Terminal
                   /\ processes[id].end_time
                   /\ child[id].st = "reaped"]_vars
    /\ \A id \in ProcIds : (child[id].st = "zombie") ~> (processes[id] = NoProc)

\* A record removed by its waiter after its child exited.
C32_Witness ==
    \E id \in ProcIds :
        processes[id] = NoProc /\ waiter[id].pc = "done" /\ child[id].st = "reaped"


\* Line n is on its way to the client or has reached it: its pump has yet to
\* publish it, it waits in the copy or in the receiver, or it was sent.
OnItsWay(n) ==
    \/ \E st \in Streams : pump[st].n = n
    \/ \E i \in 1..Len(logs_stream.replay) : logs_stream.replay[i].n = n
    \/ \E i \in 1..Len(consumers[1].inbox) : consumers[1].inbox[i].n = n
    \/ \E i \in 1..Len(logs_stream.out) : logs_stream.out[i].log.n = n

\* C33: on an SSE logs request without tail whose receiver is never overrun,
\* every line appended from the handler's first statement on reaches the
\* client, from the copy of the ring or live, and every copied line is sent
\* before every live one.
C33_StreamMissesNoLine ==
    /\ (/\ logs_stream.pc # "idle"
        /\ logs_stream.tail = NoTail
        /\ ~logs_stream.lagged /\ ~consumers[1].lagged)
          => \A n \in (logs_stream.from + 1)..produced : OnItsWay(n)
    /\ \A i, j \in 1..Len(logs_stream.out) :
          (i < j /\ logs_stream.out[i].live) => logs_stream.out[j].live

\* A line appended between the two statements came with the copy, and a
\* later line came live.
C33_Witness ==
    /\ logs_stream.tail = NoTail
    /\ ~logs_stream.lagged /\ ~consumers[1].lagged
    /\ \E i, j \in 1..Len(logs_stream.out) :
          /\ ~logs_stream.out[i].live /\ logs_stream.out[i].log.n > logs_stream.from
          /\ logs_stream.out[j].live /\ logs_stream.out[j].log.n > logs_stream.out[i].log.n


\* How many times line n has been put on the socket, counting once more a
\* line that is still to come live: held by its pump before publishing, or
\* waiting in the consumer i.
TimesEmitted(n, i) ==
    Cardinality({k \in 1..Len(emitted) : emitted[k].log.n = n})
      + (IF \/ \E st \in Streams : pump[st].n = n
            \/ \E k \in 1..Len(consumers[i].inbox) : consumers[i].inbox[k].n = n
            \/ consumers[i].log.n = n
         THEN 1 ELSE 0)

\* C34: when a subscribe without levels filter and with a tail of at least
\* the ring's length has replayed the history and attached its consumer, and
\* the consumer has not been overrun, every line of the ring is emitted on
\* the socket exactly once, as history or live.
C34_EachLineEmittedOnce ==
    (/\ handler.pc = "confirm"
     /\ handler.levels = {}
     /\ handler.tail >= RingCap
     /\ consumers[handler.sub].st \in {"recv", "send"}
     /\ ~consumers[handler.sub].lagged)
       => \A k \in 1..Len(logs) : TimesEmitted(logs[k].n, handler.sub) = 1


\* C35: kill of a process and terminate of a session send their signal only
\* to a pid whose child has not been waited on yet.
C35_NoSignalToReapedChild ==
    [][/\ (os_signal' # os_signal) => ~os_signal'.reaped
       /\ (sresp' # sresp /\ sresp'.op = "terminate" /\ sresp'.code # NotFound)
             => shell # "reaped"]_vars


\* C37: a process record whose status is completed, failed or killed has its
\* end_time set.
C37_TerminalStatusHasEndTime ==
    \A id \in ProcIds :
        (processes[id] # NoProc /\ processes[id].status \in Terminal) => processes[id].end_time


\* What can still happen while a request holds the registry's write guard:
\* the request's own next step, the shell reading a command or its command
\* writing a line, a pump reading a line.  A pump's append waits for the
\* guard to be released.
request_can_step ==
    \/ sreq.pc = "locked" /\ stdin_write_ok /\ stdin_has_room
    \/ sreq.pc = "written"

shell_can_step ==
    \/ stdin_pipe # <<>> /\ shell_cmd.plan = <<>>
    \/ shell_cmd.plan # <<>> /\ Len(out_pipe[Head(shell_cmd.plan)]) < PipeCap

pump_can_step ==
    \E s \in Streams :
        \/ spump[s] = NoOut /\ out_pipe[s] # <<>>
        \/ spump[s] # NoOut /\ ~registry_write_locked

\* C36: the session engine does not deadlock: while an exec or cd holds the
\* registry's write guard, the request, the shell or a pump can take a step.
C36_WriterCanComplete ==
    registry_write_locked => (request_can_step \/ shell_can_step \/ pump_can_step)


\* A session operation answers that its write to the shell's stdin failed.
StdinWriteFailed ==
    /\ sresp' # sresp
    /\ sresp'.op \in {"env", "exec", "cd"}
    /\ sresp'.code = InternalError

\* C38: an env-update, exec or cd that fails on its write to the shell's
\* stdin leaves the record's env, last_used_at, cwd and log ring as they
\* were before the call.
C38_FailedStdinWriteChangesNothing ==
    [][StdinWriteFailed => /\ session' = session
                           /\ cwd' = cwd
                           /\ logs' = logs]_vars


\* ListMessage, websocket.rs:394-414: one SubscriptionInfo per key of the
\* map, each with active = true as stored at websocket.rs:320-327.
ListMessage(subs) ==
    [kind |-> "list", sub |-> 0, key |-> "", log |-> NoLine, sequence |-> 0,
     is_history |-> FALSE, status |-> 0,
     subscriptions |-> {t \in Types : subs[t] # NoSub}]

\* list, websocket.rs:394-415: the map's values are sent as they are.
ws_list ==
    /\ handler.pc = "idle"
    /\ has_room
    /\ sendq' = Append(sendq, ListMessage(active_subscriptions))
    /\ UNCHANGED <<rest_vars, sync_vars, sess_vars, proc_vars, target_type, logs, produced, pump,
                   consumers, spawned, active_subscriptions, handler, emitted>>

NextWsList ==
    \/ NextWs
    \/ ws_list

\* The socket with its list action.
SpecWsList == InitSocket /\ [][NextWsList]_vars

\* A consumer task made for the key is in its receive loop.
HasRunningConsumer(t) ==
    \E i \in 1..MaxSubs : consumers[i].key = t /\ consumers[i].st \in {"recv", "send"}

\* C39: every subscription a list reply reports has a running consumer task
\* on its target's broadcaster.
C39_ListedSubscriptionHasConsumer ==
    [][(/\ Len(sendq') = Len(sendq) + 1
        /\ sendq'[Len(sendq')].kind = "list")
       => \A t \in sendq'[Len(sendq')].subscriptions : HasRunningConsumer(t)]_vars


\* ------------------------------------------------------------ port monitor

\* last_updated.elapsed() > self.cache_ttl, monitor/port.rs:31 and 41
stale == now - last_updated > CacheTtl

\* The second check, under the mutex, monitor/port.rs:39-42
really_needs_refresh_always == TRUE

really_needs_refresh == stale

\* The clock advances.
tick ==
    /\ now < MaxTime
    /\ now' = now + 1
    /\ UNCHANGED <<proc_vars, ws_vars, sess_vars, sync_vars, fn_vars, io_vars, aux_vars,
                   ports, last_updated, refresh_mutex, callers, listening>>

\* A process of the machine starts or stops listening on a port.
os_listen(port) ==
    /\ listening' = IF port \in listening THEN listening \ {port} ELSE listening \cup {port}
    /\ UNCHANGED <<proc_vars, ws_vars, sess_vars, sync_vars, fn_vars, io_vars, aux_vars,
                   ports, last_updated, refresh_mutex, callers, now>>

\* get_ports is called and makes its first check, monitor/port.rs:27-32.
get_ports(c) ==
    /\ callers[c].pc = "idle"
    /\ callers' = [callers EXCEPT ![c] =
                      [NoCall EXCEPT !.pc = IF stale THEN "lock" ELSE "read",
                                     !.should_refresh = stale]]
    /\ UNCHANGED <<proc_vars, ws_vars, sess_vars, sync_vars, fn_vars, io_vars, aux_vars,
                   ports, last_updated, refresh_mutex, now, listening>>

\* self.refresh_mutex.lock().await returns, monitor/port.rs:36.
get_ports_lock(c) ==
    /\ callers[c].pc = "lock"
    /\ refresh_mutex = 0
    /\ refresh_mutex' = c
    /\ callers' = [callers EXCEPT ![c].pc = "recheck", ![c].locked = TRUE]
    /\ UNCHANGED <<proc_vars, ws_vars, sess_vars, sync_vars, fn_vars, io_vars, aux_vars,
                   ports, last_updated, now, listening>>

\* The second check, monitor/port.rs:38-46: a fresh cache ends the block,
\* which drops the guard.
get_ports_recheck(c) ==
    /\ callers[c].pc = "recheck"
    /\ IF really_needs_refresh
         THEN /\ callers' = [callers EXCEPT ![c].pc = "poll"]
              /\ UNCHANGED refresh_mutex
         ELSE /\ callers' = [callers EXCEPT ![c].pc = "read"]
              /\ refresh_mutex' = 0
    /\ UNCHANGED <<proc_vars, ws_vars, sess_vars, sync_vars, fn_vars, io_vars, aux_vars,
                   ports, last_updated, now, listening>>

\* refresh, monitor/port.rs:57-58: poll_ports reads /proc/net/tcp and tcp6;
\* a file that cannot be read counts as empty, so the poll never fails.
refresh_poll(c) ==
    /\ callers[c].pc = "poll"
    /\ callers' = [callers EXCEPT ![c].pc = "write_ports", ![c].polled = listening,
                                  ![c].refreshed = TRUE]
    /\ UNCHANGED <<proc_vars, ws_vars, sess_vars, sync_vars, fn_vars, io_vars, aux_vars,
                   ports, last_updated, refresh_mutex, now, listening>>

\* refresh, monitor/port.rs:60-63: the list is stored.
refresh_write_ports(c) ==
    /\ callers[c].pc = "write_ports"
    /\ ports' = callers[c].polled
    /\ callers' = [callers EXCEPT ![c].pc = "write_time"]
    /\ UNCHANGED <<proc_vars, ws_vars, sess_vars, sync_vars, fn_vars, io_vars, aux_vars,
                   last_updated, refresh_mutex, now, listening>>

\* refresh, monitor/port.rs:64-69, and the end of the block at 47, which
\* drops the guard.
refresh_write_time(c) ==
    /\ callers[c].pc = "write_time"
    /\ last_updated' = now
    /\ refresh_mutex' = 0
    /\ callers' = [callers EXCEPT ![c].pc = "read"]
    /\ UNCHANGED <<proc_vars, ws_vars, sess_vars, sync_vars, fn_vars, io_vars, aux_vars,
                   ports, now, listening>>

\* monitor/port.rs:49-55: the cached list is cloned and returned.
get_ports_return(c) ==
    /\ callers[c].pc = "read"
    /\ callers' = [callers EXCEPT ![c].pc = "idle", ![c].ret = ports]
    /\ UNCHANGED <<proc_vars, ws_vars, sess_vars, sync_vars, fn_vars, io_vars, aux_vars,
                   ports, last_updated, refresh_mutex, now, listening>>

NextPorts ==
    \/ tick
    \/ \E port \in PortNumbers : os_listen(port)
    \/ \E c \in Callers : get_ports(c)
    \/ \E c \in Callers : get_ports_lock(c)
    \/ \E c \in Callers : get_ports_recheck(c)
    \/ \E c \in Callers : refresh_poll(c)
    \/ \E c \in Callers : refresh_write_ports(c)
    \/ \E c \in Callers : refresh_write_time(c)
    \/ \E c \in Callers : get_ports_return(c)

InitPorts ==
    /\ InitProc /\ SocketUnused /\ SessionUnused /\ SyncUnused /\ RestUnused

\* The port monitor with its callers, the clock and the machine's ports.
SpecPorts == InitPorts /\ [][NextPorts]_vars

\* The call is inside refresh.
Refreshing(c) == callers[c].pc \in {"poll", "write_ports", "write_time"}

\* C40: concurrent get_ports calls refresh one at a time, and a call that
\* gets the refresh lock while the cache is within its TTL, another call
\* having refreshed it, returns without refreshing the list that a refresh
\* has stored.
C40_RefreshOneAtATimeAndOnlyWhenStale ==
    /\ \A c, d \in Callers : Refreshing(c) /\ Refreshing(d) => c = d
    /\ \A c \in Callers : Refreshing(c) => stale
    /\ \A c \in Callers :
           callers[c].pc = "read" /\ callers[c].locked /\ ~callers[c].refreshed
               => last_updated >= 0

\* A call found the cache stale, got the lock after another call's refresh
\* and is about to return the list that call stored.
C40_Witness ==
    \E c \in Callers :
        /\ callers[c].pc = "read"
        /\ callers[c].should_refresh
        /\ callers[c].locked
        /\ ~callers[c].refreshed
        /\ last_updated >= 0
        /\ ports # {}

====
